---- MODULE Spec2Model ----
(***************************************************************************)
(* A model of the framing core of network/src/protocols.rs: the frame      *)
(* codecs of TcpProtocol and UdpProtocol and their read and write tasks.   *)
(*                                                                         *)
(* Representation.  A byte is an integer 0..255.  A u32, u64 or u128 value *)
(* is written as its base-256 numeral, most significant digit first (so    *)
(* 0x0102030405060708 is <<1,2,3,4,5,6,7,8>>): the values do not fit the   *)
(* integers of the model checker, and the numeral makes to_le_bytes and    *)
(* from_le_bytes conversions that reorder digits.  u8, u16 and usize       *)
(* values (tags, prio, promises, lengths, offsets) are integers.           *)
(***************************************************************************)
EXTENDS Integers, Sequences, FiniteSets, TLC

\* ------------------------------------------------------------ bounds
\* The longest sequence of frames an inbound stream or datagram queue holds.
MaxFrames == 2
\* The payload lengths 0..MaxData of the Data and Raw frames tried one by one.
MaxData == 2
\* The number of frames a producer pushes into one outbound source queue.
MaxPush == 2
\* The length of an outbound source queue when producers never stop pushing.
MaxQueue == 1
\* The number of short answers of send_to in one run.
MaxShort == 1

\* ------------------------------------------------------------ constants
FRAME_HANDSHAKE == 1
FRAME_PARTICIPANT_ID == 2
FRAME_SHUTDOWN == 3
FRAME_OPEN_STREAM == 4
FRAME_CLOSE_STREAM == 5
FRAME_DATA_HEADER == 6
FRAME_DATA == 7
\* A Raw frame that would take the reserved value 10 as its tag.
FRAME_RESERVED_2 == 10
FRAME_RAW == 8
\* The size of the diagnostic blob read after an unknown tag.
DiagLen == 256
\* The size of the scratch buffer of UdpProtocol::write.
BufSize == 2000

\* ------------------------------------------------------------ helpers
Min(a, b) == IF a < b THEN a ELSE b

Zeros(n) == [i \in 1..n |-> 0]

Reverse(s) == [i \in 1..Len(s) |-> s[Len(s) + 1 - i]]

\* bytes[i] of the source: 0-based.
At(bytes, i) == bytes[i + 1]

\* bytes[a..b] of the source: 0-based, b exclusive.
Slice(bytes, a, b) == SubSeq(bytes, a + 1, b)

RECURSIVE Flatten(_)
Flatten(ss) == IF ss = <<>> THEN <<>> ELSE Head(ss) \o Flatten(Tail(ss))

SeqsUpTo(S, n) == UNION {[1..k -> S] : k \in 0..n}

IsPrefix(s, t) == Len(s) <= Len(t) /\ SubSeq(t, 1, Len(s)) = s

\* ------------------------------------------------------------ numeric encoding
\* A to_be_bytes in the place of to_le_bytes: most significant digit first.
ToLeBytesSwapped(x) == x

\* uN::to_le_bytes of a numeral: least significant digit first.
ToLeBytes(x) == Reverse(x)

\* A from_be_bytes in the place of from_le_bytes.
FromBeBytes(b) == b

\* uN::from_le_bytes: the numeral of a little-endian byte array.
FromLeBytes(b) == Reverse(b)

\* A tag written as a u16, most significant byte first.
U8BytesWide(x) == <<0, x>>

\* u8::to_be_bytes and u8::to_le_bytes.
U8Bytes(x) == <<x>>

\* u16::MAX
U16Max == 65535

\* data.len() as u16.
AsU16(n) == n % 65536

\* u16::to_le_bytes of an integer.
U16ToLeBytes(n) == <<n % 256, (n \div 256) % 256>>

\* u16::from_le_bytes([b0, b1]) as usize.
U16FromLeBytes(b0, b1) == b0 + 256 * b1

\* ------------------------------------------------------------ Frame
Handshake(m, v) == [kind |-> "Handshake", magic_number |-> m, version |-> v]
ParticipantId(p) == [kind |-> "ParticipantId", pid |-> p]
Shutdown == [kind |-> "Shutdown"]
OpenStream(s, p, q) == [kind |-> "OpenStream", sid |-> s, prio |-> p, promises |-> q]
CloseStream(s) == [kind |-> "CloseStream", sid |-> s]
DataHeader(m, s, l) == [kind |-> "DataHeader", mid |-> m, sid |-> s, length |-> l]
Data(m, s, d) == [kind |-> "Data", mid |-> m, start |-> s, data |-> d]
Raw(d) == [kind |-> "Raw", data |-> d]

\* ------------------------------------------------------------ TcpProtocol::write, per frame
\* The byte slices of the successive write_all calls for one frame.
TcpFields(f) ==
  CASE f.kind = "Handshake" ->
         << U8Bytes(FRAME_HANDSHAKE), f.magic_number, ToLeBytes(f.version[1]),
            ToLeBytes(f.version[2]), ToLeBytes(f.version[3]) >>
    [] f.kind = "ParticipantId" -> << U8Bytes(FRAME_PARTICIPANT_ID), ToLeBytes(f.pid) >>
    [] f.kind = "Shutdown" -> << U8Bytes(FRAME_SHUTDOWN) >>
    [] f.kind = "OpenStream" ->
         << U8Bytes(FRAME_OPEN_STREAM), ToLeBytes(f.sid), U8Bytes(f.prio),
            U8Bytes(f.promises) >>
    [] f.kind = "CloseStream" -> << U8Bytes(FRAME_CLOSE_STREAM), ToLeBytes(f.sid) >>
    [] f.kind = "DataHeader" ->
         << U8Bytes(FRAME_DATA_HEADER), ToLeBytes(f.mid), ToLeBytes(f.sid),
            ToLeBytes(f.length) >>
    [] f.kind = "Data" ->
         << U8Bytes(FRAME_DATA), ToLeBytes(f.mid), ToLeBytes(f.start),
            U16ToLeBytes(AsU16(Len(f.data))), f.data >>
    [] f.kind = "Raw" ->
         << U8Bytes(FRAME_RAW), U16ToLeBytes(AsU16(Len(f.data))), f.data >>

\* A stream writer that would write the fields of a frame last to first.
TcpBytesFieldsReversed(f) == Flatten(Reverse(TcpFields(f)))

\* Everything TcpProtocol::write puts on the stream for one frame.
TcpBytes(f) == Flatten(TcpFields(f))

\* ------------------------------------------------------------ UdpProtocol::write, per frame
\* The scratch buffer [0u8; 2000] is kept up to the last byte ever stored in
\* it; the bytes after that are the zeros it was created with.
\* The stores of one frame are buffer[off + i] = bytes[i] for i in
\* 0..bytes.len(), made in program order; a store at an index past the end of
\* the buffer panics, the earlier stores having been made.

\* An encoder that would never find a store past the end of the buffer.
FirstPanicNever(stores) == 0

\* The first store of the frame that runs past the buffer, 0 if none does.
FirstPanic(stores) ==
  LET ks == {k \in DOMAIN stores : stores[k][1] + Len(stores[k][2]) > BufSize}
  IN  IF ks = {} THEN 0 ELSE CHOOSE k \in ks : \A j \in ks : k <= j

\* An encoder whose stores would not reach the bytes an earlier frame left
\* in the buffer.
PutSkipsWritten(buf, stores, upto) ==
  LET made == {k \in DOMAIN stores : k <= upto}
      ends == {Min(BufSize, stores[k][1] + Len(stores[k][2])) : k \in made}
      n == CHOOSE m \in ends \cup {Len(buf)} : \A e \in ends \cup {Len(buf)} : e <= m
  IN  [j \in 1..n |->
         LET ks == {k \in made : /\ stores[k][1] < j
                                 /\ j <= stores[k][1] + Len(stores[k][2])}
         IN  IF j <= Len(buf) THEN buf[j]
             ELSE IF ks # {}
             THEN LET k == CHOOSE m \in ks : \A e \in ks : e <= m
                  IN  stores[k][2][j - stores[k][1]]
             ELSE 0]

\* The buffer after the stores, of which those up to the one numbered upto
\* are made: each index holds what the last store to it put there, and what
\* it held before if there was none.
Put(buf, stores, upto) ==
  LET made == {k \in DOMAIN stores : k <= upto}
      ends == {Min(BufSize, stores[k][1] + Len(stores[k][2])) : k \in made}
      n == CHOOSE m \in ends \cup {Len(buf)} : \A e \in ends \cup {Len(buf)} : e <= m
  IN  [j \in 1..n |->
         LET ks == {k \in made : /\ stores[k][1] < j
                                 /\ j <= stores[k][1] + Len(stores[k][2])}
         IN  IF ks # {}
             THEN LET k == CHOOSE m \in ks : \A e \in ks : e <= m
                  IN  stores[k][2][j - stores[k][1]]
             ELSE IF j <= Len(buf) THEN buf[j] ELSE 0]

\* The stores of one frame, <<offset, bytes>>, in program order.
UdpStores(f) ==
  CASE f.kind = "Handshake" ->
         << <<0, U8Bytes(FRAME_HANDSHAKE)>>, <<1, f.magic_number>>,
            <<8, ToLeBytes(f.version[1])>>, <<12, ToLeBytes(f.version[2])>>,
            <<16, ToLeBytes(f.version[3])>> >>
    [] f.kind = "ParticipantId" ->
         << <<0, U8Bytes(FRAME_PARTICIPANT_ID)>>, <<1, ToLeBytes(f.pid)>> >>
    [] f.kind = "Shutdown" -> << <<0, U8Bytes(FRAME_SHUTDOWN)>> >>
    [] f.kind = "OpenStream" ->
         << <<0, U8Bytes(FRAME_OPEN_STREAM)>>, <<1, ToLeBytes(f.sid)>>,
            <<9, U8Bytes(f.prio)>>, <<10, U8Bytes(f.promises)>> >>
    [] f.kind = "CloseStream" ->
         << <<0, U8Bytes(FRAME_CLOSE_STREAM)>>, <<1, ToLeBytes(f.sid)>> >>
    [] f.kind = "DataHeader" ->
         << <<0, U8Bytes(FRAME_DATA_HEADER)>>, <<1, ToLeBytes(f.mid)>>,
            <<9, ToLeBytes(f.sid)>>, <<17, ToLeBytes(f.length)>> >>
    [] f.kind = "Data" ->
         << <<0, U8Bytes(FRAME_DATA)>>, <<1, ToLeBytes(f.mid)>>,
            <<9, ToLeBytes(f.start)>>, <<17, U16ToLeBytes(AsU16(Len(f.data)))>>,
            <<19, f.data>> >>
    [] f.kind = "Raw" ->
         << <<0, U8Bytes(FRAME_RAW)>>, <<1, U16ToLeBytes(AsU16(Len(f.data)))>>,
            <<3, f.data>> >>

\* A match that would yield one byte too few for Data.
UdpLenOffByOne(f) ==
  CASE f.kind = "Handshake" -> 20
    [] f.kind = "ParticipantId" -> 17
    [] f.kind = "Shutdown" -> 1
    [] f.kind = "OpenStream" -> 11
    [] f.kind = "CloseStream" -> 9
    [] f.kind = "DataHeader" -> 25
    [] f.kind = "Data" -> 18 + Len(f.data)
    [] f.kind = "Raw" -> 3 + Len(f.data)

\* The value of the match: the encoded length.
UdpLen(f) ==
  CASE f.kind = "Handshake" -> 20
    [] f.kind = "ParticipantId" -> 17
    [] f.kind = "Shutdown" -> 1
    [] f.kind = "OpenStream" -> 11
    [] f.kind = "CloseStream" -> 9
    [] f.kind = "DataHeader" -> 25
    [] f.kind = "Data" -> 19 + Len(f.data)
    [] f.kind = "Raw" -> 3 + Len(f.data)

\* The match of UdpProtocol::write on one frame: the scratch buffer after it,
\* the length it yields, and whether a store panicked.
UdpEncode(buf, f) ==
  CHOOSE e \in
    { [buffer |-> Put(buf, stores, IF FirstPanic(stores) = 0 THEN Len(stores)
                                   ELSE FirstPanic(stores)),
       len |-> UdpLen(f),
       panicked |-> FirstPanic(stores) # 0] : stores \in {UdpStores(f)} } : TRUE

\* The datagram a full send_to carries for a frame encoded into the buffer buf:
\* &buffer[0..len].
UdpDatagram(buf, f) ==
  LET e == UdpEncode(buf, f) IN Slice(e.buffer, 0, e.len)

\* ------------------------------------------------------------ TcpProtocol::read, per frame
\* The size of the array read_exact fills right after the tag.
TcpBodyLen(frame_no) ==
  CASE frame_no = FRAME_HANDSHAKE -> 19
    [] frame_no = FRAME_PARTICIPANT_ID -> 16
    [] frame_no = FRAME_SHUTDOWN -> 0
    [] frame_no = FRAME_OPEN_STREAM -> 10
    [] frame_no = FRAME_CLOSE_STREAM -> 8
    [] frame_no = FRAME_DATA_HEADER -> 24
    [] frame_no = FRAME_DATA -> 18
    [] frame_no = FRAME_RAW -> 2

KnownTags == FRAME_HANDSHAKE..FRAME_RAW

\* The length of the payload that follows the fixed header (Data and Raw).
TcpPayloadLen(frame_no, bytes) ==
  CASE frame_no = FRAME_DATA -> U16FromLeBytes(At(bytes, 16), At(bytes, 17))
    [] frame_no = FRAME_RAW -> U16FromLeBytes(At(bytes, 0), At(bytes, 1))
    [] OTHER -> 0

\* The frame of a tag, its fixed header and its payload.
TcpDecode(frame_no, bytes, data) ==
  CASE frame_no = FRAME_HANDSHAKE ->
         Handshake(Slice(bytes, 0, 7),
                   << FromLeBytes(Slice(bytes, 7, 11)), FromLeBytes(Slice(bytes, 11, 15)),
                      FromLeBytes(Slice(bytes, 15, 19)) >>)
    [] frame_no = FRAME_PARTICIPANT_ID -> ParticipantId(FromLeBytes(bytes))
    [] frame_no = FRAME_SHUTDOWN -> Shutdown
    [] frame_no = FRAME_OPEN_STREAM ->
         OpenStream(FromLeBytes(Slice(bytes, 0, 8)), At(bytes, 8), At(bytes, 9))
    [] frame_no = FRAME_CLOSE_STREAM -> CloseStream(FromLeBytes(Slice(bytes, 0, 8)))
    [] frame_no = FRAME_DATA_HEADER ->
         DataHeader(FromLeBytes(Slice(bytes, 0, 8)), FromLeBytes(Slice(bytes, 8, 16)),
                    FromLeBytes(Slice(bytes, 16, 24)))
    [] frame_no = FRAME_DATA ->
         Data(FromLeBytes(Slice(bytes, 0, 8)), FromLeBytes(Slice(bytes, 8, 16)), data)
    [] frame_no = FRAME_RAW -> Raw(data)

\* ------------------------------------------------------------ UdpProtocol::read, per datagram
Panic == [kind |-> "panic"]

\* A default arm that would drop the tag byte from the Raw frame.
UdpDecodeStripsTag(bytes) == IF bytes = <<>> THEN Panic ELSE Raw(Tail(bytes))

\* The frame of one datagram, or Panic where an index, a slice or
\* copy_from_slice panics.
UdpDecode(bytes) ==
  IF Len(bytes) = 0 THEN Panic
  ELSE LET frame_no == At(bytes, 0) IN
    CASE frame_no = FRAME_HANDSHAKE ->
           IF Len(bytes) < 20 THEN Panic
           ELSE LET b == Slice(bytes, 1, 20) IN
                Handshake(Slice(b, 0, 7),
                          << FromLeBytes(Slice(b, 7, 11)), FromLeBytes(Slice(b, 11, 15)),
                             FromLeBytes(Slice(b, 15, 19)) >>)
      [] frame_no = FRAME_PARTICIPANT_ID ->
           IF Len(bytes) < 17 THEN Panic
           ELSE ParticipantId(FromLeBytes(Slice(bytes, 1, 17)))
      [] frame_no = FRAME_SHUTDOWN -> Shutdown
      [] frame_no = FRAME_OPEN_STREAM ->
           IF Len(bytes) < 11 THEN Panic
           ELSE LET b == Slice(bytes, 1, 11) IN
                OpenStream(FromLeBytes(Slice(b, 0, 8)), At(b, 8), At(b, 9))
      [] frame_no = FRAME_CLOSE_STREAM ->
           IF Len(bytes) < 9 THEN Panic
           ELSE LET b == Slice(bytes, 1, 9) IN CloseStream(FromLeBytes(Slice(b, 0, 8)))
      [] frame_no = FRAME_DATA_HEADER ->
           IF Len(bytes) < 25 THEN Panic
           ELSE LET b == Slice(bytes, 1, 25) IN
                DataHeader(FromLeBytes(Slice(b, 0, 8)), FromLeBytes(Slice(b, 8, 16)),
                           FromLeBytes(Slice(b, 16, 24)))
      [] frame_no = FRAME_DATA ->
           IF Len(bytes) < 19 THEN Panic
           ELSE LET length == U16FromLeBytes(At(bytes, 17), At(bytes, 18))
                    rest == Slice(bytes, 19, Len(bytes))
                IN  IF Len(rest) # length THEN Panic
                    ELSE Data(FromLeBytes(Slice(bytes, 1, 9)),
                              FromLeBytes(Slice(bytes, 9, 17)), rest)
      [] frame_no = FRAME_RAW ->
           IF Len(bytes) < 3 THEN Panic
           ELSE LET length == U16FromLeBytes(At(bytes, 1), At(bytes, 2))
                    rest == Slice(bytes, 3, Len(bytes))
                IN  IF Len(rest) # length THEN Panic ELSE Raw(rest)
      [] OTHER -> Raw(bytes)

\* ------------------------------------------------------------ state
VARIABLES
  protocol,      \* Protocols: "tcp" or "udp"
  \* the inbound side
  stream,        \* bytes of the TcpStream the peer has sent or will send, not yet read
  stream_end,    \* "open", or how the peer ended the stream: "eof", "err"
  data_in,       \* the inbound datagram queue of UdpProtocol
  data_in_open,  \* whether the sender of data_in is alive
  data_in_lock,  \* whether the write lock of data_in is held
  r_pc,          \* where the read task stands
  frame_no,      \* the tag last read
  bytes,         \* the header array read_exact is filling or has filled
  data,          \* the payload vector read_exact is filling
  need,          \* bytes the current read_exact still misses
  frame_handler, \* the frames sent into frame_handler, in order
  r2_pc,         \* where a second read task of the same endpoint stands
  frame_handler2, \* the frames the second read task sent into its frame_handler
  sent,          \* history: the frames whose encodings the peer put on the wire
  junk,          \* history: what the peer sent that encodes no frame
  cut,           \* history: the stream ended before all its bytes arrived
  \* the outbound side
  internal_frame_receiver, \* the frames queued in the internal source
  external_frame_receiver, \* the frames queued in the external source
  internal_open,  \* whether a sender of the internal source is alive
  external_open,  \* whether a sender of the external source is alive
  n_internal,     \* frames pushed into the internal source so far
  n_external,     \* frames pushed into the external source so far
  w_pc,           \* where the write task stands
  frame,          \* the frame the select! yielded
  src,            \* the branch of the select! that yielded it
  field,          \* TcpProtocol::write: the next write_all of the frame
  buffer,         \* UdpProtocol::write: the scratch buffer
  len,            \* UdpProtocol::write: the encoded length
  start,          \* UdpProtocol::write: the offset of the next send_to
  shorts,         \* short answers send_to has given
  wire,           \* history: what the transport accepted, call by call
  recording,      \* whether the histories are kept (a finite workload)
  \* common/src/comp/skills.rs: the statics loaded from the assets
  SKILL_GROUP_DEFS,    \* HashMap<SkillGroupType, HashSet<Skill>>
  SKILL_MAX_LEVEL,     \* HashMap<Skill, Level>
  SKILL_PREREQUISITES, \* HashMap<Skill, HashMap<Skill, Level>>
  \* a SkillSet
  skill_groups,   \* Vec<SkillGroup>
  skills,         \* HashMap<Skill, Level>
  modify_health,
  modify_energy,
  sk_pc,          \* "none": no skill set; "ready"; "panicked": a call on it panicked
  call,           \* history: the last call on the skill set and the skill set before it
  \* voxygen/src/main.rs: the play-state loop of main
  states,         \* Vec<Box<dyn PlayState>>, as the names of the states, top last
  direction,      \* the Direction the next play gets
  ps_pc,          \* "none": no loop; "play"; "shutdown": popping all states; "exit"
  plays,          \* history: the number of play calls made
  played,         \* history: the state and the direction of the last play call
  state_result,   \* history: what the last play call returned
  changed,        \* history: the number of on_play_state_changed calls made
  popped          \* history: the states popped since the last Shutdown, in order

\* The state of the second read task.
r2vars == << r2_pc, frame_handler2 >>

rvars == << stream, stream_end, data_in, data_in_open, data_in_lock, r_pc, frame_no,
            bytes, data, need, frame_handler, r2_pc, frame_handler2, sent, junk, cut >>

wvars == << internal_frame_receiver, external_frame_receiver, internal_open,
            external_open, n_internal, n_external, w_pc, frame, src, field, buffer, len,
            start, shorts, wire, recording >>

svars == << SKILL_GROUP_DEFS, SKILL_MAX_LEVEL, SKILL_PREREQUISITES, skill_groups, skills,
            modify_health, modify_energy, sk_pc, call >>

pvars == << states, direction, ps_pc, plays, played, state_result, changed, popped >>

vars == << protocol, rvars, wvars, svars, pvars >>

\* ------------------------------------------------------------ inbound workloads
Sid1 == <<1, 2, 3, 4, 5, 6, 7, 8>>
Sid7 == <<0, 0, 0, 0, 0, 0, 0, 7>>
Mid1 == <<0, 0, 0, 0, 0, 0, 0, 1>>
Pid1 == <<1, 2, 3, 4, 5, 6, 7, 8, 9, 10, 11, 12, 13, 14, 15, 16>>
Veloren == <<86, 69, 76, 79, 82, 69, 78>>

\* One frame of each variant.
SeqFrames ==
  { Handshake(Veloren, << <<0, 0, 0, 0>>, <<0, 0, 0, 3>>, <<0, 0, 0, 1>> >>),
    ParticipantId(Pid1),
    Shutdown,
    OpenStream(Sid1, 5, 15),
    CloseStream(Sid7),
    DataHeader(Mid1, Sid7, <<0, 0, 0, 0, 0, 0, 0, 130>>),
    Data(Mid1, <<0, 0, 0, 0, 0, 0, 1, 0>>, <<7, 3>>),
    Raw(<<8, 1>>) }

\* Payloads of every length 0..MaxData, and one whose length needs both bytes
\* of the length prefix.
Payloads ==
  {[i \in 1..n |-> (37 * i) % 256] : n \in 0..MaxData} \cup {[i \in 1..258 |-> i % 256]}

EdgeFrames ==
  {Data(Sid1, Mid1, p) : p \in Payloads} \cup {Raw(p) : p \in Payloads}

Frames == SeqFrames \cup EdgeFrames

\* A message of 130 bytes as its header and two fragments of 100 and 30 bytes.
Fragmented ==
  << DataHeader(Mid1, Sid7, <<0, 0, 0, 0, 0, 0, 0, 130>>),
     Data(Mid1, <<0, 0, 0, 0, 0, 0, 0, 0>>, [i \in 1..100 |-> i]),
     Data(Mid1, <<0, 0, 0, 0, 0, 0, 0, 100>>, [i \in 1..30 |-> 100 + i]) >>

\* The frame sequences a peer sends.
Workloads ==
  SeqsUpTo(SeqFrames, MaxFrames) \cup {<<f>> : f \in EdgeFrames} \cup {Fragmented}

\* What the scratch buffer of the peer's write task holds before a frame is
\* encoded into it: nothing yet, or an earlier frame.
Scratches == { <<>>, [i \in 1..40 |-> 255] }

\* Bytes that start with a tag no frame has.
StreamJunk == { <<>>, <<255>>, <<0, 9, 3>>, <<13, 7>> }

\* Datagrams that are not the encoding of a frame: empty, unknown tag,
\* truncated Data, Raw with a wrong length prefix, Data with a wrong length
\* prefix.
DatagramJunk ==
  { <<>>, << <<>> >>, << <<255, 1, 2>> >>, << <<7, 0, 0, 0, 0, 0, 0, 0, 0, 0>> >>,
    << <<8, 5, 0, 1>> >>,
    << <<7, 0, 0, 0, 0, 0, 0, 0, 1, 0, 0, 0, 0, 0, 0, 0, 0, 1, 0, 9, 9>> >> }

\* ------------------------------------------------------------ Init
NoFrame == [kind |-> "none"]

\* No write task.
WriteIdle ==
  /\ internal_frame_receiver = <<>>
  /\ external_frame_receiver = <<>>
  /\ internal_open = FALSE
  /\ external_open = FALSE
  /\ n_internal = 0
  /\ n_external = 0
  /\ w_pc = "idle"
  /\ frame = NoFrame
  /\ src = "none"
  /\ field = 0
  /\ buffer = <<>>
  /\ len = 0
  /\ start = 0
  /\ shorts = 0
  /\ wire = <<>>
  /\ recording = TRUE

\* No play-state loop.
PlayIdle ==
  /\ states = <<>>
  /\ direction = "Forwards"
  /\ ps_pc = "none"
  /\ plays = 0
  /\ played = [state |-> "none"]
  /\ state_result = "none"
  /\ changed = 0
  /\ popped = <<>>

\* No skill set.
SkillsIdle ==
  /\ SKILL_GROUP_DEFS = <<>>
  /\ SKILL_MAX_LEVEL = <<>>
  /\ SKILL_PREREQUISITES = <<>>
  /\ skill_groups = <<>>
  /\ skills = <<>>
  /\ modify_health = FALSE
  /\ modify_energy = FALSE
  /\ sk_pc = "none"
  /\ call = [op |-> "none"]

\* No read task.
ReadIdle ==
  /\ stream = <<>>
  /\ stream_end = "open"
  /\ data_in = <<>>
  /\ data_in_open = FALSE
  /\ data_in_lock = FALSE
  /\ r_pc = "idle"
  /\ frame_no = 0
  /\ bytes = <<>>
  /\ data = <<>>
  /\ need = 0
  /\ frame_handler = <<>>
  /\ r2_pc = "idle"
  /\ frame_handler2 = <<>>
  /\ sent = <<>>
  /\ junk = <<>>
  /\ cut = FALSE

InitRead ==
  /\ protocol \in {"tcp", "udp"}
  /\ sent \in Workloads
  /\ junk \in IF Len(sent) > 1 THEN {<<>>}
              ELSE IF protocol = "tcp" THEN StreamJunk ELSE DatagramJunk
  /\ stream = IF protocol = "tcp"
              THEN Flatten([i \in 1..Len(sent) |-> TcpBytes(sent[i])]) \o junk
              ELSE <<>>
  /\ stream_end = "open"
  /\ \E scratch \in IF protocol = "udp" THEN Scratches ELSE {<<>>} :
       data_in = IF protocol = "udp"
                 THEN junk \o [i \in 1..Len(sent) |-> UdpDatagram(scratch, sent[i])]
                 ELSE <<>>
  /\ data_in_open = TRUE
  /\ data_in_lock = FALSE
  /\ r_pc = IF protocol = "tcp" THEN "tag" ELSE "lock"
  /\ frame_no = 0
  /\ bytes = <<>>
  /\ data = <<>>
  /\ need = 0
  /\ frame_handler = <<>>
  /\ r2_pc = "idle"
  /\ frame_handler2 = <<>>
  /\ cut = FALSE
  /\ WriteIdle
  /\ SkillsIdle
  /\ PlayIdle

\* ------------------------------------------------------------ the peer and the network
\* The peer ends the stream, by a close (EOF) or by an error; what it had not
\* sent by then never arrives.
PeerClose ==
  /\ protocol = "tcp"
  /\ stream_end = "open"
  /\ \E kind \in {"eof", "err"}, lost \in BOOLEAN :
       /\ stream_end' = kind
       /\ stream' = IF lost THEN <<>> ELSE stream
       /\ cut' = (lost /\ stream # <<>>)
  /\ UNCHANGED wvars
  /\ UNCHANGED svars
  /\ UNCHANGED pvars
  /\ UNCHANGED r2vars
  /\ UNCHANGED << protocol, data_in, data_in_open, data_in_lock, r_pc, frame_no, bytes,
                  data, need, frame_handler, sent, junk >>

\* The demultiplexer drops the sender of data_in.
CloseDataIn ==
  /\ protocol = "udp"
  /\ data_in_open
  /\ data_in_open' = FALSE
  /\ UNCHANGED wvars
  /\ UNCHANGED svars
  /\ UNCHANGED pvars
  /\ UNCHANGED r2vars
  /\ UNCHANGED << protocol, stream, stream_end, data_in, data_in_lock, r_pc, frame_no,
                  bytes, data, need, frame_handler, sent, junk, cut >>

\* ------------------------------------------------------------ faulty variants of the reader
\* A reader that would go on to the next tag after a failed read_exact.
ReadExactErrResumes(pc) == IF pc = "tag" THEN "done" ELSE "tag"

\* A reader that would try the failed read_exact again.
ReadExactErrRetry(pc) == pc

\* A sink that would take the newest frame first.
SendFront(f) == frame_handler' = <<f>> \o frame_handler

\* A sink that would take every frame twice.
SendTwice(f) == frame_handler' = frame_handler \o <<f, f>>

\* A default arm that would emit only the bytes the read stored.
DiagBlobTruncated(got) == got

\* ------------------------------------------------------------ TcpProtocol::read
\* Where read goes when read_exact returns an error: a break at the tag, the
\* panic of unwrap() anywhere else.
ReadExactErr(pc) == IF pc = "tag" THEN "done" ELSE "panicked"

\* frame_handler.send(frame)
Send(f) == frame_handler' = Append(frame_handler, f)

\* stream.read_exact(&mut bytes) for the tag, and the match on frame_no up to
\* the next await.
TcpReadTag ==
  /\ protocol = "tcp"
  /\ r_pc = "tag"
  /\ IF stream # <<>>
     THEN LET no == Head(stream) IN
          /\ stream' = Tail(stream)
          /\ frame_no' = no
          /\ bytes' = <<>>
          /\ data' = <<>>
          /\ IF no = FRAME_SHUTDOWN
             THEN /\ Send(TcpDecode(no, <<>>, <<>>))
                  /\ r_pc' = "tag"
                  /\ need' = 0
             ELSE /\ r_pc' = IF no \in KnownTags THEN "body" ELSE "unknown"
                  /\ need' = IF no \in KnownTags THEN TcpBodyLen(no) ELSE 0
                  /\ UNCHANGED frame_handler
     ELSE /\ stream_end # "open"
          /\ r_pc' = ReadExactErr(r_pc)
          /\ UNCHANGED << stream, frame_no, bytes, data, need, frame_handler >>
  /\ UNCHANGED wvars
  /\ UNCHANGED svars
  /\ UNCHANGED pvars
  /\ UNCHANGED r2vars
  /\ UNCHANGED << protocol, stream_end, data_in, data_in_open, data_in_lock, sent, junk,
                  cut >>

\* What one read of the socket may store when want bytes are asked for and
\* avail >= 1 are at hand: any count from 1 up to both, of which the two
\* extremes are tried.
ReadSizes(want, avail) == {1, Min(want, avail)}

\* One read of the read_exact that fills the fixed header; with the last byte
\* the frame is built, or the payload vector allocated.
TcpReadBody ==
  /\ protocol = "tcp"
  /\ r_pc = "body"
  /\ IF stream # <<>>
     THEN \E k \in ReadSizes(need, Len(stream)) :
            LET got == bytes \o SubSeq(stream, 1, k)
                length == TcpPayloadLen(frame_no, got)
            IN  /\ stream' = SubSeq(stream, k + 1, Len(stream))
                /\ bytes' = got
                /\ data' = <<>>
                /\ IF k < need
                   THEN /\ need' = need - k
                        /\ r_pc' = "body"
                        /\ UNCHANGED frame_handler
                   ELSE IF length > 0
                   THEN /\ need' = length
                        /\ r_pc' = "payload"
                        /\ UNCHANGED frame_handler
                   ELSE /\ need' = 0
                        /\ r_pc' = "tag"
                        /\ Send(TcpDecode(frame_no, got, <<>>))
     ELSE /\ stream_end # "open"
          /\ r_pc' = ReadExactErr(r_pc)
          /\ UNCHANGED << stream, bytes, data, need, frame_handler >>
  /\ UNCHANGED wvars
  /\ UNCHANGED svars
  /\ UNCHANGED pvars
  /\ UNCHANGED r2vars
  /\ UNCHANGED << protocol, stream_end, data_in, data_in_open, data_in_lock, frame_no,
                  sent, junk, cut >>

\* One read of the read_exact that fills the payload of a Data or Raw frame.
TcpReadPayload ==
  /\ protocol = "tcp"
  /\ r_pc = "payload"
  /\ IF stream # <<>>
     THEN \E k \in ReadSizes(need, Len(stream)) :
            LET got == data \o SubSeq(stream, 1, k)
            IN  /\ stream' = SubSeq(stream, k + 1, Len(stream))
                /\ data' = got
                /\ need' = need - k
                /\ IF k < need
                   THEN /\ r_pc' = "payload"
                        /\ UNCHANGED frame_handler
                   ELSE /\ r_pc' = "tag"
                        /\ Send(TcpDecode(frame_no, bytes, got))
     ELSE /\ stream_end # "open"
          /\ r_pc' = ReadExactErr(r_pc)
          /\ UNCHANGED << stream, data, need, frame_handler >>
  /\ UNCHANGED wvars
  /\ UNCHANGED svars
  /\ UNCHANGED pvars
  /\ UNCHANGED r2vars
  /\ UNCHANGED << protocol, stream_end, data_in, data_in_open, data_in_lock, frame_no,
                  bytes, sent, junk, cut >>

\* The vector Frame::Raw carries after an unknown tag: vec![0; 256] with the
\* bytes one read stored at its front.
DiagBlob(got) == got \o Zeros(DiagLen - Len(got))

\* The default arm: one stream.read into a 256-byte vector; read returns what
\* is at hand, 0 at EOF, and its error panics in unwrap().
TcpReadUnknown ==
  /\ protocol = "tcp"
  /\ r_pc = "unknown"
  /\ IF stream # <<>>
     THEN \E k \in ReadSizes(DiagLen, Len(stream)) :
            /\ stream' = SubSeq(stream, k + 1, Len(stream))
            /\ Send(Raw(DiagBlob(SubSeq(stream, 1, k))))
            /\ r_pc' = "tag"
     ELSE /\ stream_end # "open"
          /\ UNCHANGED stream
          /\ IF stream_end = "eof"
             THEN /\ Send(Raw(DiagBlob(<<>>)))
                  /\ r_pc' = "tag"
             ELSE /\ r_pc' = "panicked"
                  /\ UNCHANGED frame_handler
  /\ UNCHANGED wvars
  /\ UNCHANGED svars
  /\ UNCHANGED pvars
  /\ UNCHANGED r2vars
  /\ UNCHANGED << protocol, stream_end, data_in, data_in_open, data_in_lock, frame_no,
                  bytes, data, need, sent, junk, cut >>

\* ------------------------------------------------------------ UdpProtocol::read
\* A lock that would hand out a second write guard while one is alive.
WriteLockShared(held) == TRUE

\* RwLock::write(): the future completes when no guard of the lock is alive.
WriteLockFree(held) == ~held

\* self.data_in.write().await
UdpLock ==
  /\ protocol = "udp"
  /\ r_pc = "lock"
  /\ WriteLockFree(data_in_lock)
  /\ data_in_lock' = TRUE
  /\ r_pc' = "recv"
  /\ UNCHANGED wvars
  /\ UNCHANGED svars
  /\ UNCHANGED pvars
  /\ UNCHANGED r2vars
  /\ UNCHANGED << protocol, stream, stream_end, data_in, data_in_open, frame_no, bytes,
                  data, need, frame_handler, sent, junk, cut >>

\* data_in.next().await and the body of the loop; None ends the task, which
\* drops the lock guard, and so does a panic.
UdpRecv ==
  /\ protocol = "udp"
  /\ r_pc = "recv"
  /\ IF data_in # <<>>
     THEN LET decoded == UdpDecode(Head(data_in)) IN
          /\ data_in' = Tail(data_in)
          /\ bytes' = Head(data_in)
          /\ IF decoded = Panic
             THEN /\ r_pc' = "panicked"
                  /\ data_in_lock' = FALSE
                  /\ UNCHANGED << frame_no, frame_handler >>
             ELSE /\ r_pc' = "recv"
                  /\ frame_no' = At(Head(data_in), 0)
                  /\ Send(decoded)
                  /\ UNCHANGED data_in_lock
     ELSE /\ ~data_in_open
          /\ r_pc' = "done"
          /\ data_in_lock' = FALSE
          /\ UNCHANGED << data_in, frame_no, bytes, frame_handler >>
  /\ UNCHANGED wvars
  /\ UNCHANGED svars
  /\ UNCHANGED pvars
  /\ UNCHANGED r2vars
  /\ UNCHANGED << protocol, stream, stream_end, data_in_open, data, need, sent, junk, cut >>

\* ------------------------------------------------------------ a second UdpProtocol::read
\* read(&self, ..) is called again on the same endpoint while the task of an
\* earlier call may be running.
ReadAgain ==
  /\ protocol = "udp"
  /\ r2_pc = "idle"
  /\ r2_pc' = "lock"
  /\ UNCHANGED wvars
  /\ UNCHANGED svars
  /\ UNCHANGED pvars
  /\ UNCHANGED << protocol, stream, stream_end, data_in, data_in_open, data_in_lock, r_pc,
                  frame_no, bytes, data, need, frame_handler, frame_handler2, sent, junk,
                  cut >>

\* self.data_in.write().await of the second task.
UdpLock2 ==
  /\ protocol = "udp"
  /\ r2_pc = "lock"
  /\ WriteLockFree(data_in_lock)
  /\ data_in_lock' = TRUE
  /\ r2_pc' = "recv"
  /\ UNCHANGED wvars
  /\ UNCHANGED svars
  /\ UNCHANGED pvars
  /\ UNCHANGED << protocol, stream, stream_end, data_in, data_in_open, r_pc, frame_no,
                  bytes, data, need, frame_handler, frame_handler2, sent, junk, cut >>

\* data_in.next().await and the body of the loop in the second task, which
\* sends into the frame_handler it was called with.
UdpRecv2 ==
  /\ protocol = "udp"
  /\ r2_pc = "recv"
  /\ IF data_in # <<>>
     THEN LET decoded == UdpDecode(Head(data_in)) IN
          /\ data_in' = Tail(data_in)
          /\ IF decoded = Panic
             THEN /\ r2_pc' = "panicked"
                  /\ data_in_lock' = FALSE
                  /\ UNCHANGED frame_handler2
             ELSE /\ r2_pc' = "recv"
                  /\ frame_handler2' = Append(frame_handler2, decoded)
                  /\ UNCHANGED data_in_lock
     ELSE /\ ~data_in_open
          /\ r2_pc' = "done"
          /\ data_in_lock' = FALSE
          /\ UNCHANGED << data_in, frame_handler2 >>
  /\ UNCHANGED wvars
  /\ UNCHANGED svars
  /\ UNCHANGED pvars
  /\ UNCHANGED << protocol, stream, stream_end, data_in_open, r_pc, frame_no, bytes, data,
                  need, frame_handler, sent, junk, cut >>

\* ------------------------------------------------------------ the read side
ReadStep ==
  \/ TcpReadTag
  \/ TcpReadBody
  \/ TcpReadPayload
  \/ TcpReadUnknown
  \/ UdpLock
  \/ UdpRecv

NextRead == PeerClose \/ CloseDataIn \/ ReadStep

SpecRead == InitRead /\ [][NextRead]_vars

\* An endpoint of UdpProtocol on which read is called a second time, at any
\* moment of the first call's task.
InitReadUdp == InitRead /\ protocol = "udp"

NextReadUdp == CloseDataIn \/ UdpLock \/ UdpRecv \/ ReadAgain \/ UdpLock2 \/ UdpRecv2

SpecReadUdp == InitReadUdp /\ [][NextReadUdp]_vars

\* ------------------------------------------------------------ outbound workloads
\* What the session layer pushes into the internal source, in order.
InternalFrames ==
  << OpenStream(Sid1, 5, 15), Shutdown,
     Handshake(Veloren, << <<0, 0, 0, 0>>, <<0, 0, 0, 3>>, <<0, 0, 0, 1>> >>),
     CloseStream(Sid7), ParticipantId(Pid1) >>

\* What the stream scheduler pushes into the external source, in order.
ExternalFrames ==
  << Data(Mid1, <<0, 0, 0, 0, 0, 0, 1, 0>>, <<7, 3>>), Raw(<<8>>),
     DataHeader(Mid1, Sid7, <<0, 0, 0, 0, 0, 0, 0, 130>>) >>

Nth(frames, n) == frames[((n - 1) % Len(frames)) + 1]

InitWriteCommon ==
  /\ protocol \in {"tcp", "udp"}
  /\ internal_frame_receiver = <<>>
  /\ external_frame_receiver = <<>>
  /\ internal_open = TRUE
  /\ external_open = TRUE
  /\ n_internal = 0
  /\ n_external = 0
  /\ w_pc = "select"
  /\ frame = NoFrame
  /\ src = "none"
  /\ field = 0
  /\ buffer = <<>>
  /\ len = 0
  /\ start = 0
  /\ shorts = 0
  /\ wire = <<>>
  /\ ReadIdle
  /\ SkillsIdle
  /\ PlayIdle

\* A finite workload, of which the histories are kept.
InitWrite == InitWriteCommon /\ recording = TRUE

\* Producers that never stop: no history is kept.
InitWriteLive == InitWriteCommon /\ recording = FALSE

\* ------------------------------------------------------------ the producers
WriterAlive == w_pc \notin {"done", "panicked"}

\* A channel that would queue the newest frame of the internal source first.
PushInternalFront ==
  /\ internal_open
  /\ WriterAlive
  /\ IF recording THEN n_internal < MaxPush
                  ELSE Len(internal_frame_receiver) < MaxQueue
  /\ internal_frame_receiver' =
       <<Nth(InternalFrames, n_internal + 1)>> \o internal_frame_receiver
  /\ n_internal' = IF recording THEN n_internal + 1 ELSE (n_internal + 1) % MaxPush
  /\ UNCHANGED rvars
  /\ UNCHANGED svars
  /\ UNCHANGED pvars
  /\ UNCHANGED << protocol, external_frame_receiver, internal_open, external_open,
                  n_external, w_pc, frame, src, field, buffer, len, start, shorts, wire,
                  recording >>

\* A send into the internal source; it fails once the write task has dropped
\* the receiver.
PushInternal ==
  /\ internal_open
  /\ WriterAlive
  /\ IF recording THEN n_internal < MaxPush
                  ELSE Len(internal_frame_receiver) < MaxQueue
  /\ internal_frame_receiver' =
       Append(internal_frame_receiver, Nth(InternalFrames, n_internal + 1))
  /\ n_internal' = IF recording THEN n_internal + 1 ELSE (n_internal + 1) % MaxPush
  /\ UNCHANGED rvars
  /\ UNCHANGED svars
  /\ UNCHANGED pvars
  /\ UNCHANGED << protocol, external_frame_receiver, internal_open, external_open,
                  n_external, w_pc, frame, src, field, buffer, len, start, shorts, wire,
                  recording >>

PushExternal ==
  /\ external_open
  /\ WriterAlive
  /\ IF recording THEN n_external < MaxPush
                  ELSE Len(external_frame_receiver) < MaxQueue
  /\ external_frame_receiver' =
       Append(external_frame_receiver, Nth(ExternalFrames, n_external + 1))
  /\ n_external' = IF recording THEN n_external + 1 ELSE (n_external + 1) % MaxPush
  /\ UNCHANGED rvars
  /\ UNCHANGED svars
  /\ UNCHANGED pvars
  /\ UNCHANGED << protocol, internal_frame_receiver, internal_open, external_open,
                  n_internal, w_pc, frame, src, field, buffer, len, start, shorts, wire,
                  recording >>

\* The last sender of a source is dropped.
CloseInternal ==
  /\ internal_open
  /\ internal_open' = FALSE
  /\ UNCHANGED rvars
  /\ UNCHANGED svars
  /\ UNCHANGED pvars
  /\ UNCHANGED << protocol, internal_frame_receiver, external_frame_receiver,
                  external_open, n_internal, n_external, w_pc, frame, src, field, buffer,
                  len, start, shorts, wire, recording >>

CloseExternal ==
  /\ external_open
  /\ external_open' = FALSE
  /\ UNCHANGED rvars
  /\ UNCHANGED svars
  /\ UNCHANGED pvars
  /\ UNCHANGED << protocol, internal_frame_receiver, external_frame_receiver,
                  internal_open, n_internal, n_external, w_pc, frame, src, field, buffer,
                  len, start, shorts, wire, recording >>

\* ------------------------------------------------------------ the select! of both write tasks
\* receiver.next() is ready with Some(frame) when a frame is queued and with
\* None when the queue is empty and every sender is gone; else it is pending.
IsReady(queue, open) == queue # <<>> \/ ~open

\* A select that would poll the internal source first every time.
SelectBranchesBiased ==
  IF IsReady(internal_frame_receiver, internal_open) THEN {"internal"}
  ELSE {b \in {"external"} : IsReady(external_frame_receiver, external_open)}

\* The branches select! may complete with: it polls the two futures in a
\* pseudo-random order and takes the first that is ready.
SelectBranches ==
  {b \in {"internal"} : IsReady(internal_frame_receiver, internal_open)}
    \cup {b \in {"external"} : IsReady(external_frame_receiver, external_open)}

\* The frames the write task has taken from its two sources so far.
Taken ==
  (n_internal - Len(internal_frame_receiver)) + (n_external - Len(external_frame_receiver))

\* The history of what the transport accepted.
Log(entry) == wire' = IF recording THEN Append(wire, entry) ELSE wire

\* A write task that would poll its sources while a frame is half written.
AtSelectOrWriting(pc) == pc \in {"select", "tcp_write"}

\* The select! is evaluated at the head of the loop only: the body of the
\* loop, the match with its write_all calls, has run to its end.
AtSelect(pc) == pc = "select"

\* while let Some(frame) = select! {..}: one branch completes; None ends the
\* loop, Some(frame) starts the match on the frame.  UdpProtocol::write runs
\* the whole match, which awaits nothing, and sets start.
Select(b) ==
  /\ AtSelect(w_pc)
  /\ b \in SelectBranches
  /\ LET queue == IF b = "internal" THEN internal_frame_receiver
                  ELSE external_frame_receiver
     IN  /\ IF queue = <<>>
            THEN /\ w_pc' = "done"
                 /\ UNCHANGED << frame, src, field, buffer, len, start >>
            ELSE /\ frame' = Head(queue)
                 /\ src' = b
                 /\ IF protocol = "tcp"
                    THEN /\ w_pc' = "tcp_write"
                         /\ field' = 1
                         /\ UNCHANGED << buffer, len, start >>
                    ELSE \E e \in {UdpEncode(buffer, Head(queue))} :
                           /\ w_pc' = IF e.panicked THEN "panicked" ELSE "udp_loop"
                           /\ buffer' = e.buffer
                           /\ len' = e.len
                           /\ start' = 0
                           /\ UNCHANGED field
         /\ internal_frame_receiver' =
              IF b = "internal" /\ queue # <<>> THEN Tail(queue)
              ELSE internal_frame_receiver
         /\ external_frame_receiver' =
              IF b = "external" /\ queue # <<>> THEN Tail(queue)
              ELSE external_frame_receiver
  /\ UNCHANGED rvars
  /\ UNCHANGED svars
  /\ UNCHANGED pvars
  /\ UNCHANGED << protocol, internal_open, external_open, n_internal, n_external, shorts,
                  wire, recording >>

\* ------------------------------------------------------------ TcpProtocol::write
\* The number of bytes of a slice that went out when write_all fails: any
\* number below its length; of a slice longer than the longest fixed field the
\* first counts and the last are tried.
ErrAfter(slice) ==
  IF Len(slice) <= 16 THEN 0..(Len(slice) - 1) ELSE (0..15) \cup {Len(slice) - 1}

\* One stream.write_all(..).await.unwrap(): the whole slice goes out, or an
\* error comes back after some of it went out and unwrap() panics.
TcpWrite ==
  /\ protocol = "tcp"
  /\ w_pc = "tcp_write"
  /\ LET slice == TcpFields(frame)[field] IN
     \/ /\ Log([src |-> src, bytes |-> slice, no |-> Taken])
        /\ IF field < Len(TcpFields(frame))
           THEN /\ field' = field + 1
                /\ w_pc' = "tcp_write"
           ELSE /\ field' = 0
                /\ w_pc' = "select"
     \/ \E k \in ErrAfter(slice) :
          /\ Log([src |-> src, bytes |-> SubSeq(slice, 1, k), no |-> Taken])
          /\ w_pc' = "panicked"
          /\ UNCHANGED field
  /\ UNCHANGED rvars
  /\ UNCHANGED svars
  /\ UNCHANGED pvars
  /\ UNCHANGED << protocol, internal_frame_receiver, external_frame_receiver,
                  internal_open, external_open, n_internal, n_external, frame, src, buffer,
                  len, start, shorts, recording >>

\* ------------------------------------------------------------ UdpProtocol::write
\* while start < len
UdpLoop ==
  /\ protocol = "udp"
  /\ w_pc = "udp_loop"
  /\ w_pc' = IF start < len THEN "udp_send" ELSE "select"
  /\ UNCHANGED rvars
  /\ UNCHANGED svars
  /\ UNCHANGED pvars
  /\ UNCHANGED << protocol, internal_frame_receiver, external_frame_receiver,
                  internal_open, external_open, n_internal, n_external, frame, src, field,
                  buffer, len, start, shorts, wire, recording >>

\* A writer that would never log a short send.
ShortSendNeverLogged(n, l) == FALSE

\* if n != len { error!(..) }: whether the short-send diagnostic is logged
\* after send_to answered Ok(n).
ShortSendLogged(n, l) == n # l

\* What send_to may answer in Ok(n) for a slice of avail bytes: all of it, or a
\* short count, of which the two extremes are tried.
SendAnswers(avail) == {n \in {1, avail - 1, avail} : 1 <= n}

\* self.socket.send_to(&buffer[start..len], ..).await and the match on its
\* answer: Ok(n) with n bytes accepted as one datagram, or Err(e), which is
\* logged and changes nothing.  The history keeps, with the bytes accepted,
\* the number of the frame, the length of the slice given and whether the
\* short-send diagnostic was logged.
UdpSend ==
  /\ protocol = "udp"
  /\ w_pc = "udp_send"
  /\ \/ \E n \in SendAnswers(len - start) :
          /\ n < len - start => shorts < MaxShort
          /\ shorts' = IF n < len - start THEN shorts + 1 ELSE shorts
          /\ Log([src |-> src, bytes |-> Slice(buffer, start, start + n),
                  no |-> Taken, given |-> len - start,
                  diag |-> ShortSendLogged(n, len)])
          /\ start' = start + n
     \/ UNCHANGED << start, shorts, wire >>
  /\ w_pc' = "udp_loop"
  /\ UNCHANGED rvars
  /\ UNCHANGED svars
  /\ UNCHANGED pvars
  /\ UNCHANGED << protocol, internal_frame_receiver, external_frame_receiver,
                  internal_open, external_open, n_internal, n_external, frame, src, field,
                  buffer, len, recording >>

\* ------------------------------------------------------------ the write side
WriteStep == TcpWrite \/ UdpLoop \/ UdpSend

Produce == PushInternal \/ PushExternal \/ CloseInternal \/ CloseExternal

NextWrite == Produce \/ Select("internal") \/ Select("external") \/ WriteStep

SpecWrite == InitWrite /\ [][NextWrite]_vars

\* The scheduler runs a task that can take a step, and the pseudo-random
\* order of select! takes each branch that is ready again and again.
FairWrite ==
  /\ WF_vars(WriteStep)
  /\ SF_vars(Select("internal"))
  /\ SF_vars(Select("external"))

SpecWriteFair == InitWriteLive /\ [][NextWrite]_vars /\ FairWrite

\* The scheduler runs the read task whenever it can take a step.
SpecReadFair == InitRead /\ [][NextRead]_vars /\ WF_vars(ReadStep)

\* ------------------------------------------------------------ UdpProtocol::write at the end of its buffer
\* Data and Raw frames whose encoding is one byte longer than the scratch
\* buffer, and those whose encoding fills it to the last byte.
OversizedFrames ==
  { Data(Mid1, Sid7, [i \in 1..(BufSize - 18) |-> i % 256]),
    Raw([i \in 1..(BufSize - 2) |-> i % 256]) }

FittingFrames ==
  { Data(Mid1, Sid7, [i \in 1..(BufSize - 19) |-> i % 256]),
    Raw([i \in 1..(BufSize - 3) |-> i % 256]) }

\* The write task of UdpProtocol starts with one such frame already pushed
\* into the external source, and with the internal source empty and closed.
InitWriteUdpLarge ==
  /\ protocol = "udp"
  /\ internal_frame_receiver = <<>>
  /\ external_frame_receiver \in {<<f>> : f \in OversizedFrames \cup FittingFrames}
  /\ internal_open = FALSE
  /\ external_open = TRUE
  /\ n_internal = 0
  /\ n_external = 1
  /\ w_pc = "select"
  /\ frame = NoFrame
  /\ src = "none"
  /\ field = 0
  /\ buffer = <<>>
  /\ len = 0
  /\ start = 0
  /\ shorts = 0
  /\ wire = <<>>
  /\ recording = TRUE
  /\ ReadIdle
  /\ SkillsIdle
  /\ PlayIdle

NextWriteUdp ==
  PushExternal \/ CloseExternal \/ Select("internal") \/ Select("external") \/ UdpLoop \/ UdpSend

SpecWriteUdpLarge == InitWriteUdpLarge /\ [][NextWriteUdp]_vars

\* ------------------------------------------------------------ TcpProtocol::write of a long payload
\* Data and Raw frames whose payload has the most bytes a u16 counts, one
\* more, and two more.
LongFrames ==
  UNION { { Data(Mid1, Sid7, [i \in 1..n |-> i % 256]), Raw([i \in 1..n |-> i % 256]) } :
            n \in {U16Max, U16Max + 1, U16Max + 2} }

\* The write task of TcpProtocol starts with one such frame already pushed
\* into the external source, and with the internal source empty and closed.
InitWriteTcpLong ==
  /\ protocol = "tcp"
  /\ internal_frame_receiver = <<>>
  /\ external_frame_receiver \in {<<f>> : f \in LongFrames}
  /\ internal_open = FALSE
  /\ external_open = TRUE
  /\ n_internal = 0
  /\ n_external = 1
  /\ w_pc = "select"
  /\ frame = NoFrame
  /\ src = "none"
  /\ field = 0
  /\ buffer = <<>>
  /\ len = 0
  /\ start = 0
  /\ shorts = 0
  /\ wire = <<>>
  /\ recording = TRUE
  /\ ReadIdle
  /\ SkillsIdle
  /\ PlayIdle

NextWriteTcp ==
  PushExternal \/ CloseExternal \/ Select("internal") \/ Select("external") \/ TcpWrite

SpecWriteTcpLong == InitWriteTcpLong /\ [][NextWriteTcp]_vars

\* ------------------------------------------------------------ claims
\* The peer's stream is the encoding of its frames, nothing else, and ends
\* only after all of it arrived.
IntactStream == protocol = "tcp" /\ junk = <<>> /\ ~cut

Last(s) == s[Len(s)]

\* C1: stream round trip.  When the stream carries exactly the bytes
\* TcpProtocol::write puts out for one frame, of any variant and payload
\* length, TcpProtocol::read emits that frame once all bytes are read, emits
\* nothing else, and does not panic.
C1_StreamRoundTrip ==
  (IntactStream /\ Len(sent) = 1) =>
    /\ IsPrefix(frame_handler, sent)
    /\ stream = <<>> => frame_handler = sent
    /\ r_pc # "panicked"

C1_Witness ==
  /\ protocol = "tcp"
  /\ r_pc = "done"
  /\ Len(sent) = 1
  /\ sent[1].kind = "Data"
  /\ Len(sent[1].data) = 258
  /\ frame_handler = sent

\* C2: datagram round trip.  When the inbound queue holds the one datagram
\* UdpProtocol::write sends in full for a frame that fits the scratch buffer,
\* UdpProtocol::read emits that frame, nothing else, and does not panic.
C2_DatagramRoundTrip ==
  (protocol = "udp" /\ junk = <<>> /\ Len(sent) = 1) =>
    /\ IsPrefix(frame_handler, sent)
    /\ data_in = <<>> => frame_handler = sent
    /\ r_pc # "panicked"

C2_Witness ==
  /\ protocol = "udp"
  /\ r_pc = "done"
  /\ junk = <<>>
  /\ Len(sent) = 1
  /\ sent[1].kind = "Data"
  /\ Len(sent[1].data) = 258
  /\ frame_handler = sent

\* C3: for a stream that is the concatenation of the encodings of f1..fn,
\* read in any chunks, the frames in frame_handler are always the first of
\* f1..fn in wire order, and all of them once every byte has been read.
C3_StreamYieldsFramesInOrder ==
  (protocol = "tcp" /\ junk = <<>>) =>
    /\ IsPrefix(frame_handler, sent)
    /\ ~cut => (stream = <<>> => frame_handler = sent) /\ r_pc # "panicked"

C3_Witness ==
  /\ protocol = "tcp"
  /\ r_pc = "done"
  /\ sent = Fragmented
  /\ frame_handler = sent

\* C4: when the stream has ended and no byte is left while read_exact fills
\* the fixed header or the payload of a frame, the next step of the read task
\* ends it, with no frame emitted; and an ended task reads and emits nothing.
C4_TruncatedFrameEndsRead ==
  /\ [][(protocol = "tcp" /\ r_pc \in {"body", "payload"} /\ stream = <<>>
           /\ stream_end # "open")
         => (r_pc' = "panicked" /\ frame_handler' = frame_handler /\ stream' = stream)]_vars
  /\ [][(protocol = "tcp" /\ r_pc = "panicked")
         => (r_pc' = r_pc /\ frame_handler' = frame_handler /\ stream' = stream)]_vars

C4_Witness ==
  /\ protocol = "tcp"
  /\ r_pc = "panicked"
  /\ frame_no \in KnownTags
  /\ cut
  /\ junk = <<>>
  /\ data # <<>>
  /\ ~IsPrefix(sent, frame_handler)

\* C5 as stated: from the default arm of the match the read task always goes
\* on to the next tag with exactly one more frame in frame_handler, a Raw of
\* 256 bytes.
C5_UnknownTagAlwaysYieldsRaw ==
  [][(protocol = "tcp" /\ r_pc = "unknown" /\ r_pc' # r_pc)
      => /\ r_pc' = "tag"
         /\ Len(frame_handler') = Len(frame_handler) + 1
         /\ IsPrefix(frame_handler, frame_handler')
         /\ Last(frame_handler').kind = "Raw"
         /\ Len(Last(frame_handler').data) = DiagLen]_vars

\* C5, amended: from the default arm of the match the read task goes on to
\* the next tag with exactly one more frame in frame_handler, a Raw of 256
\* bytes; unless the one read of that arm returns an I/O error, which is the
\* panic of unwrap(): then the task ends and emits nothing.
C5_UnknownTagYieldsRaw ==
  [][(protocol = "tcp" /\ r_pc = "unknown" /\ r_pc' # r_pc)
      => \/ /\ r_pc' = "tag"
            /\ Len(frame_handler') = Len(frame_handler) + 1
            /\ IsPrefix(frame_handler, frame_handler')
            /\ Last(frame_handler').kind = "Raw"
            /\ Len(Last(frame_handler').data) = DiagLen
         \/ /\ stream_end = "err"
            /\ stream = <<>>
            /\ r_pc' = "panicked"
            /\ frame_handler' = frame_handler]_vars

C5_Witness ==
  /\ protocol = "tcp"
  /\ r_pc = "tag"
  /\ frame_no \notin KnownTags
  /\ junk # <<>>
  /\ frame_handler # <<>>
  /\ Last(frame_handler).kind = "Raw"
  /\ Len(Last(frame_handler).data) = DiagLen
  /\ stream # <<>>

BothReady ==
  w_pc = "select" /\ internal_frame_receiver # <<>> /\ external_frame_receiver # <<>>

\* The write task is back at the select! having written a frame of source s.
Wrote(s) == w_pc = "select" /\ src = s

\* C6: no starvation.  In every fair run of either write task in which both
\* sources hold a frame at the select! again and again, a frame of the
\* internal source and a frame of the external source are written again and
\* again.
C6_NoStarvation ==
  []<>BothReady => ([]<>Wrote("internal") /\ []<>Wrote("external"))

C6_Witness ==
  /\ ~recording
  /\ BothReady
  /\ src = "internal"
  /\ Head(external_frame_receiver) # Nth(ExternalFrames, 1)

\* C7: both-queue drain.  When the write task has returned and both sources
\* are closed, no frame is left in either queue.
C7_ReturnsWithBothDrained ==
  (w_pc = "done" /\ ~internal_open /\ ~external_open) =>
    (internal_frame_receiver = <<>> /\ external_frame_receiver = <<>>)

\* C8: the write task has returned only if both sources are closed.
C8_ReturnsOnlyWhenBothClosed ==
  w_pc = "done" => (~internal_open /\ ~external_open)

\* C9: writer termination.  Once both sources are closed, the write task
\* eventually ends, whatever the transport answers.
C9_WriterTerminates ==
  (w_pc # "idle" /\ ~internal_open /\ ~external_open) ~> (w_pc \in {"done", "panicked"})

\* C10: stream reader termination.  Once the stream has ended, the read task
\* eventually ends; when it finds the end while reading a tag it returns
\* (no panic) with frame_handler as it was, and emits nothing afterwards.
C10_ReaderTerminates ==
  /\ (protocol = "tcp" /\ r_pc # "idle" /\ stream_end # "open")
        ~> (r_pc \in {"done", "panicked"})
  /\ [][(protocol = "tcp" /\ r_pc = "tag" /\ stream = <<>> /\ stream_end # "open")
         => (r_pc' = "done" /\ frame_handler' = frame_handler)]_vars
  /\ [][(protocol = "tcp" /\ r_pc = "done")
         => (r_pc' = r_pc /\ frame_handler' = frame_handler)]_vars

C10_Witness ==
  /\ protocol = "tcp"
  /\ r_pc = "done"
  /\ stream_end = "err"
  /\ frame_handler # <<>>

\* ------------------------------------------------------------ claims on the wire of the writers
\* The bytes the transport accepted from frames of the source s, in order.
WireOf(s) ==
  LET own == SelectSeq(wire, LAMBDA e : e.src = s)
  IN  Flatten([i \in 1..Len(own) |-> own[i].bytes])

\* The bytes of one frame on the transport of the write task.
WireBytes(f) == IF protocol = "tcp" THEN TcpBytes(f) ELSE UdpDatagram(<<>>, f)

\* The bytes of the first n frames of a source, in the order they were pushed.
PushedBytes(frames, n) == Flatten([i \in 1..n |-> WireBytes(Nth(frames, i))])

\* C11: per-source FIFO on the wire.  At every moment, in every interleaving
\* of the two sources, what went on the wire from one source is a prefix of
\* the encodings of the frames pushed into that source, in the order pushed.
C11_PerSourceFifo ==
  (recording /\ w_pc # "idle") =>
    /\ IsPrefix(WireOf("internal"), PushedBytes(InternalFrames, n_internal))
    /\ IsPrefix(WireOf("external"), PushedBytes(ExternalFrames, n_external))

C11_Witness ==
  /\ recording
  /\ w_pc = "select"
  /\ n_internal = 2
  /\ WireOf("internal") = PushedBytes(InternalFrames, 2)
  /\ WireOf("external") # <<>>
  /\ wire[1].src = "internal"
  /\ wire[Len(wire)].src = "internal"
  /\ \E i \in 1..Len(wire) : wire[i].src = "external"

\* ------------------------------------------------------------ claims on malformed datagrams
\* A non-empty datagram shorter than the tag and fixed body of its tag.
Truncated(d) ==
  /\ d # <<>>
  /\ At(d, 0) \in KnownTags
  /\ Len(d) < 1 + TcpBodyLen(At(d, 0))

\* C12: truncated datagram.  When the datagram the read task has taken last
\* is shorter than its tag requires, the task has not panicked and the last
\* frame it emitted is the Raw frame of the entire datagram.
C12_TruncatedDatagramYieldsRaw ==
  (protocol = "udp" /\ Truncated(bytes)) =>
    /\ r_pc # "panicked"
    /\ frame_handler # <<>>
    /\ Last(frame_handler) = Raw(bytes)

\* The read task of UdpProtocol takes the datagram at the head of data_in.
TakesDatagram == protocol = "udp" /\ r_pc = "recv" /\ data_in # <<>> /\ data_in' # data_in

\* C13: unknown tag on a datagram.  When the read task takes a datagram whose
\* first byte is not one of 1..8, it emits exactly one more frame, the Raw
\* frame of the full datagram, and stands at the next datagram.
C13_UnknownDatagramYieldsRaw ==
  [][(TakesDatagram /\ Head(data_in) # <<>> /\ At(Head(data_in), 0) \notin KnownTags)
      => /\ frame_handler' = Append(frame_handler, Raw(Head(data_in)))
         /\ r_pc' = "recv"
         /\ data_in' = Tail(data_in)]_vars

C13_Witness ==
  /\ protocol = "udp"
  /\ r_pc = "done"
  /\ junk = << <<255, 1, 2>> >>
  /\ Len(sent) = 1
  /\ frame_handler = <<Raw(<<255, 1, 2>>)>> \o sent

\* C14: one frame per datagram on receive.  When data_in holds datagrams that
\* each encode one frame, the frames emitted are those of the datagrams taken
\* so far, one for each, in the order taken, and the task does not panic.
C14_OneFramePerDatagram ==
  (protocol = "udp" /\ junk = <<>>) =>
    /\ Len(frame_handler) + Len(data_in) = Len(sent)
    /\ IsPrefix(frame_handler, sent)
    /\ r_pc # "panicked"

C14_Witness ==
  /\ protocol = "udp"
  /\ r_pc = "recv"
  /\ sent = Fragmented
  /\ Len(data_in) = 1
  /\ frame_handler = SubSeq(sent, 1, 2)

\* ------------------------------------------------------------ claims on short sends
\* What send_to accepted of the frame the write task of UdpProtocol took last.
SendsOfFrame == SelectSeq(wire, LAMBDA e : e.no = Taken)

\* The write task of UdpProtocol is sending a frame or has sent it.
UdpSending ==
  recording /\ protocol = "udp" /\ frame # NoFrame /\ w_pc \in {"udp_loop", "udp_send", "select"}

\* C15: short sends.  The slices send_to accepted of a frame are, one after
\* the other, the first start bytes of its encoding, each taken from a slice
\* that was the whole rest; the loop is left only with start = len; and the
\* short-send diagnostic was logged for the frame exactly if send_to accepted
\* less than it was given in one of the calls.
C15_ShortSends ==
  UdpSending =>
    LET sends == SendsOfFrame
        sofar(i) == Len(Flatten([j \in 1..(i - 1) |-> sends[j].bytes]))
    IN  /\ Flatten([i \in 1..Len(sends) |-> sends[i].bytes])
              = Slice(UdpDatagram(<<>>, frame), 0, start)
        /\ \A i \in 1..Len(sends) : sends[i].given = len - sofar(i)
        /\ w_pc = "select" => start = len
        /\ (\E i \in 1..Len(sends) : sends[i].diag)
              <=> (\E i \in 1..Len(sends) : Len(sends[i].bytes) < sends[i].given)

C15_Witness ==
  /\ UdpSending
  /\ w_pc = "select"
  /\ len > 1
  /\ Len(SendsOfFrame) = 2
  /\ Len(SendsOfFrame[1].bytes) = 1
  /\ SendsOfFrame[2].diag
  /\ Len(SendsOfFrame[2].bytes) = SendsOfFrame[2].given

\* ------------------------------------------------------------ claims on oversized frames
\* The write task of UdpProtocol has taken a Data or Raw frame whose encoding
\* is longer than the scratch buffer.
TookOversized ==
  protocol = "udp" /\ frame.kind \in {"Data", "Raw"} /\ UdpLen(frame) > BufSize

\* C16: oversized frame on datagram send.  Once the write task has taken a
\* Data or Raw frame that does not fit the scratch buffer it has panicked,
\* and the transport has accepted no byte of that frame.
C16_OversizedFrameRejected ==
  TookOversized =>
    /\ w_pc = "panicked"
    /\ \A i \in 1..Len(wire) : wire[i].no # Taken

C16_Witness ==
  /\ TookOversized
  /\ frame.kind = "Data"
  /\ Len(frame.data) = BufSize - 18
  /\ w_pc = "panicked"
  /\ ~external_open

\* ------------------------------------------------------------ claims on transport errors
\* The write task has ended.
WriterEnded == w_pc \in {"done", "panicked"}

\* C17: a transport I/O error in the middle of a frame is fatal to the task.
\* The step in which read_exact or read fails inside a frame, write_all fails,
\* or send_to answers Err (nothing accepted, start as it was), ends the task;
\* and a task that has ended reads and writes nothing more.
C17_MidFrameErrorIsFatal ==
  /\ [][(protocol = "tcp" /\ r_pc \in {"body", "payload", "unknown"} /\ stream = <<>>
           /\ stream_end = "err")
         => r_pc' \in {"done", "panicked"}]_vars
  /\ [][(protocol = "tcp" /\ w_pc = "tcp_write" /\ w_pc' # w_pc /\ field' = field)
         => w_pc' \in {"done", "panicked"}]_vars
  /\ [][(protocol = "udp" /\ w_pc = "udp_send" /\ w_pc' # w_pc /\ start' = start)
         => w_pc' \in {"done", "panicked"}]_vars
  /\ [][WriterEnded => (w_pc' = w_pc /\ wire' = wire)]_vars
  /\ [][(r_pc = "done" \/ r_pc = "panicked") => (r_pc' = r_pc /\ stream' = stream)]_vars

\* ------------------------------------------------------------ claims on the encoders
\* What the transport accepted of the frame the write task took last.
BytesOfFrame ==
  LET own == SelectSeq(wire, LAMBDA e : e.no = Taken)
  IN  Flatten([i \in 1..Len(own) |-> own[i].bytes])

\* C18: encoding is deterministic.  Whatever frames the write task wrote
\* before, the bytes it sends for a frame are those of the frame alone: the
\* datagram UdpProtocol::write is about to send, &buffer[0..len], is the one
\* a fresh buffer would give, and what went on the wire for the frame, on the
\* stream as in datagrams, is the start of that frame's encoding.
C18_EncodingDeterministic ==
  (recording /\ frame # NoFrame /\ w_pc \in {"tcp_write", "udp_loop", "udp_send", "select"}) =>
    /\ protocol = "udp" => Slice(buffer, 0, len) = UdpDatagram(<<>>, frame)
    /\ IsPrefix(BytesOfFrame, WireBytes(frame))
    /\ (w_pc = "select" /\ src # "none") => BytesOfFrame = WireBytes(frame)

C18_Witness ==
  /\ recording
  /\ protocol = "udp"
  /\ w_pc = "select"
  /\ frame = Shutdown
  /\ Len(buffer) > len
  /\ buffer[2] # 0
  /\ BytesOfFrame = <<FRAME_SHUTDOWN>>

\* C19: the stream encoder and the datagram encoder agree.  Every datagram
\* UdpProtocol::write has sent that is still queued in data_in holds exactly
\* the bytes TcpProtocol::write puts on the stream for the same frame.
C19_EncodersAgree ==
  (protocol = "udp" /\ junk = <<>>) =>
    \A j \in 1..Len(data_in) :
      data_in[j] = TcpBytes(sent[Len(sent) - Len(data_in) + j])

C19_Witness ==
  /\ protocol = "udp"
  /\ junk = <<>>
  /\ r_pc = "recv"
  /\ Len(data_in) = 1
  /\ Len(sent) = 1
  /\ sent[1].kind = "Data"
  /\ Len(data_in[1]) = 19 + 258

\* The tag of each frame kind.
TagOf(f) ==
  CASE f.kind = "Handshake" -> FRAME_HANDSHAKE
    [] f.kind = "ParticipantId" -> FRAME_PARTICIPANT_ID
    [] f.kind = "Shutdown" -> FRAME_SHUTDOWN
    [] f.kind = "OpenStream" -> FRAME_OPEN_STREAM
    [] f.kind = "CloseStream" -> FRAME_CLOSE_STREAM
    [] f.kind = "DataHeader" -> FRAME_DATA_HEADER
    [] f.kind = "Data" -> FRAME_DATA
    [] f.kind = "Raw" -> FRAME_RAW

\* The encoded size the specification gives for each frame kind.
EncodedSize(f) ==
  CASE f.kind = "Handshake" -> 20
    [] f.kind = "ParticipantId" -> 17
    [] f.kind = "Shutdown" -> 1
    [] f.kind = "OpenStream" -> 11
    [] f.kind = "CloseStream" -> 9
    [] f.kind = "DataHeader" -> 25
    [] f.kind = "Data" -> 19 + Len(f.data)
    [] f.kind = "Raw" -> 3 + Len(f.data)

\* The bytes start with the tag of f, go on with the fixed body of that tag
\* and the payload its length prefix states, and have the size given for f.
WellFramed(d, f) ==
  /\ d # <<>>
  /\ At(d, 0) = TagOf(f)
  /\ Len(d) = EncodedSize(f)
  /\ Len(d) = 1 + TcpBodyLen(At(d, 0)) + TcpPayloadLen(At(d, 0), Tail(d))

\* The read task has taken nothing yet: all that was sent is still to come.
NothingRead == r_pc \in {"tag", "lock"} /\ frame_handler = <<>> /\ bytes = <<>>

\* C20: every encoded frame is one tag byte and the body of that tag, and
\* the length the datagram encoder returns is the encoded size.  For every
\* frame a peer sends, the bytes of TcpProtocol::write and the datagram of
\* UdpProtocol::write are so framed, the stores of the datagram encoder end
\* exactly at the length it returns, and that length is the given size; and
\* every datagram queued in data_in is so framed.
C20_FramingAndLength ==
  /\ NothingRead =>
        \A i \in 1..Len(sent) :
          LET e == UdpEncode(<<>>, sent[i]) IN
          /\ WellFramed(TcpBytes(sent[i]), sent[i])
          /\ WellFramed(Slice(e.buffer, 0, e.len), sent[i])
          /\ e.len = EncodedSize(sent[i])
          /\ Len(e.buffer) = e.len
  /\ (protocol = "udp" /\ junk = <<>>) =>
        \A j \in 1..Len(data_in) :
          WellFramed(data_in[j], sent[Len(sent) - Len(data_in) + j])

C20_Witness ==
  /\ protocol = "udp"
  /\ junk = <<>>
  /\ r_pc = "recv"
  /\ Len(sent) = 2
  /\ Len(data_in) = 2
  /\ sent[1].kind = "Handshake"
  /\ sent[2].kind = "DataHeader"
  /\ Len(data_in[1]) = 20
  /\ Len(data_in[2]) = 25

\* ------------------------------------------------------------ claims on the byte layout
\* The tag values of the frame kinds, and the values no frame kind may use.
Tags ==
  { FRAME_HANDSHAKE, FRAME_PARTICIPANT_ID, FRAME_SHUTDOWN, FRAME_OPEN_STREAM,
    FRAME_CLOSE_STREAM, FRAME_DATA_HEADER, FRAME_DATA, FRAME_RAW }

ReservedTags == {0, 10, 13}

\* The entries of the history with which a frame starts on the wire: the
\* first bytes the transport accepted of each frame the write task took.
FrameStarts ==
  {i \in 1..Len(wire) : (i = 1 \/ wire[i - 1].no # wire[i].no) /\ wire[i].bytes # <<>>}

\* C21: tags are distinct and none is reserved.  The eight frame kinds have
\* the tag values 1..8 in the order Handshake .. Raw, pairwise distinct, and
\* the first byte of every frame either write task puts on the wire, and of
\* the encoding of every frame kind by either encoder, is the tag of its kind
\* and none of 0, 10 and 13.
C21_TagsDistinctNoneReserved ==
  /\ << FRAME_HANDSHAKE, FRAME_PARTICIPANT_ID, FRAME_SHUTDOWN, FRAME_OPEN_STREAM,
        FRAME_CLOSE_STREAM, FRAME_DATA_HEADER, FRAME_DATA, FRAME_RAW >>
       = <<1, 2, 3, 4, 5, 6, 7, 8>>
  /\ Cardinality(Tags) = 8
  /\ \A i \in FrameStarts : At(wire[i].bytes, 0) \in Tags \ ReservedTags
  /\ (w_pc \in {"tcp_write", "udp_send"} /\ BytesOfFrame # <<>>) =>
       At(BytesOfFrame, 0) = TagOf(frame)
  /\ wire = <<>> =>
       \A f \in SeqFrames :
         /\ At(TcpBytes(f), 0) = TagOf(f)
         /\ At(UdpDatagram(<<>>, f), 0) = TagOf(f)
         /\ TagOf(f) \notin ReservedTags

C21_Witness ==
  /\ w_pc = "select"
  /\ \E i \in FrameStarts, j \in FrameStarts :
       /\ wire[i].src = "internal"
       /\ At(wire[i].bytes, 0) = FRAME_OPEN_STREAM
       /\ wire[j].src = "external"
       /\ At(wire[j].bytes, 0) = FRAME_RAW

\* Frame::Handshake { magic_number: *b"VELOREN", version: [0, 3, 1] }
HandshakeVeloren ==
  Handshake(<<86, 69, 76, 79, 82, 69, 78>>, << <<0, 0, 0, 0>>, <<0, 0, 0, 3>>, <<0, 0, 0, 1>> >>)

\* 01 56 45 4C 4F 52 45 4E 00 00 00 00 03 00 00 00 01 00 00 00
HandshakeBytes == <<1, 86, 69, 76, 79, 82, 69, 78, 0, 0, 0, 0, 3, 0, 0, 0, 1, 0, 0, 0>>

\* The read task has just sent a Handshake into frame_handler.
JustReadHandshake ==
  /\ frame_no = FRAME_HANDSHAKE
  /\ frame_handler # <<>>
  /\ \/ protocol = "tcp" /\ r_pc = "tag" /\ Len(bytes) = 19
     \/ protocol = "udp" /\ r_pc = "recv" /\ bytes # <<>>

\* The 19 bytes after the tag that frame was decoded from.
HandshakeBody == IF protocol = "tcp" THEN bytes ELSE Slice(bytes, 1, 20)

\* C22: the layout of Handshake.  The handshake VELOREN 0.3.1 is the 20
\* bytes 01 56 45 4C 4F 52 45 4E 00 00 00 00 03 00 00 00 01 00 00 00 out of
\* both encoders, whatever the scratch buffer held, and so it stands first in
\* the stream or in its datagram when a peer sends it first; and the frame
\* either read task emits for a Handshake has bytes 0..6 of the body as its
\* magic number and the little-endian u32 of bytes 7..10, 11..14 and 15..18
\* as its version, which for those 20 bytes is the handshake they encode.
C22_HandshakeLayout ==
  /\ NothingRead =>
       /\ TcpBytes(HandshakeVeloren) = HandshakeBytes
       /\ \A scratch \in Scratches : UdpDatagram(scratch, HandshakeVeloren) = HandshakeBytes
       /\ (sent # <<>> /\ sent[1] = HandshakeVeloren /\ stream_end = "open") =>
            IF protocol = "tcp" THEN Slice(stream, 0, 20) = HandshakeBytes
            ELSE data_in[Len(junk) + 1] = HandshakeBytes
  /\ JustReadHandshake =>
       LET f == Last(frame_handler)
           b == HandshakeBody
       IN  /\ f.kind = "Handshake"
           /\ f.magic_number = Slice(b, 0, 7)
           /\ \A k \in 1..3 :
                \A i \in 1..4 : f.version[k][i] = At(b, 7 + 4 * (k - 1) + (4 - i))
           /\ b = Tail(HandshakeBytes) => f = HandshakeVeloren

C22_Witness ==
  /\ JustReadHandshake
  /\ protocol = "udp"
  /\ bytes = HandshakeBytes
  /\ Len(frame_handler) = 2
  /\ frame_handler[2] = HandshakeVeloren
  /\ frame_handler[2].version[2] = <<0, 0, 0, 3>>

\* Frame::OpenStream { sid: 0x0102030405060708, prio: 5, promises: 0x0F }
OpenStreamSid == OpenStream(<<1, 2, 3, 4, 5, 6, 7, 8>>, 5, 15)

\* 04 08 07 06 05 04 03 02 01 05 0F
OpenStreamBytes == <<4, 8, 7, 6, 5, 4, 3, 2, 1, 5, 15>>

\* The integer fields of more than one byte of each frame kind: the offset
\* in the encoding and the value, as a numeral.
IntFields(f) ==
  CASE f.kind = "Handshake" ->
         { [at |-> 8, v |-> f.version[1]], [at |-> 12, v |-> f.version[2]],
           [at |-> 16, v |-> f.version[3]] }
    [] f.kind = "ParticipantId" -> { [at |-> 1, v |-> f.pid] }
    [] f.kind = "Shutdown" -> {}
    [] f.kind = "OpenStream" -> { [at |-> 1, v |-> f.sid] }
    [] f.kind = "CloseStream" -> { [at |-> 1, v |-> f.sid] }
    [] f.kind = "DataHeader" ->
         { [at |-> 1, v |-> f.mid], [at |-> 9, v |-> f.sid], [at |-> 17, v |-> f.length] }
    [] f.kind = "Data" ->
         { [at |-> 1, v |-> f.mid], [at |-> 9, v |-> f.start],
           [at |-> 17, v |-> <<Len(f.data) \div 256, Len(f.data) % 256>>] }
    [] f.kind = "Raw" ->
         { [at |-> 1, v |-> <<Len(f.data) \div 256, Len(f.data) % 256>>] }

\* In the bytes d of frame f every such field stands least significant byte
\* first.
LsbFirst(d, f) ==
  \A fld \in IntFields(f) :
    \A i \in 0..(Len(fld.v) - 1) : At(d, fld.at + i) = fld.v[Len(fld.v) - i]

\* The write task has put a whole frame on the wire and is back at select!.
WroteFrame == recording /\ w_pc = "select" /\ frame # NoFrame

\* C23: integers go least significant byte first.  OpenStream with sid
\* 0x0102030405060708, prio 5 and promises 0x0F is the 11 bytes 04 08 07 06 05
\* 04 03 02 01 05 0F out of both encoders, and these are the bytes either
\* write task has put on the wire when it is through with that frame; and in
\* the encoding of every frame, by either encoder and as written by either
\* write task, every integer field of more than one byte has its least
\* significant byte first.
C23_LittleEndianFields ==
  /\ wire = <<>> =>
       /\ TcpBytes(OpenStreamSid) = OpenStreamBytes
       /\ \A scratch \in Scratches : UdpDatagram(scratch, OpenStreamSid) = OpenStreamBytes
       /\ \A f \in Frames :
            LsbFirst(TcpBytes(f), f) /\ LsbFirst(UdpDatagram(<<>>, f), f)
  /\ WroteFrame =>
       /\ LsbFirst(BytesOfFrame, frame)
       /\ frame = OpenStreamSid => BytesOfFrame = OpenStreamBytes

C23_Witness ==
  /\ WroteFrame
  /\ protocol = "tcp"
  /\ frame = OpenStreamSid
  /\ Len(wire) = 4
  /\ wire[2].bytes = <<8, 7, 6, 5, 4, 3, 2, 1>>
  /\ BytesOfFrame = OpenStreamBytes

\* ------------------------------------------------------------ claims on the datagram reader
\* A read task of UdpProtocol owns the write guard of data_in from the end of
\* its first await to its end.
InLoop(pc) == pc = "recv"

\* C24: exclusive reader of the inbound datagram queue.  With read called
\* twice on one endpoint, at most one of the two tasks is in its receive loop
\* at any time, and the lock is held exactly while one is: a task takes it
\* once, before its first datagram, and gives it up only by ending.  Every
\* datagram leaving data_in is taken by the one task in the loop and sent into
\* that task's frame_handler only, and the second task takes a datagram only
\* while the first is not in its loop: not yet through the lock, or ended.
C24_ExclusiveReader ==
  /\ [](~(InLoop(r_pc) /\ InLoop(r2_pc)))
  /\ [](data_in_lock <=> (InLoop(r_pc) \/ InLoop(r2_pc)))
  /\ [][(InLoop(r_pc) /\ ~InLoop(r_pc')) => r_pc' \in {"done", "panicked"}]_vars
  /\ [][(InLoop(r2_pc) /\ ~InLoop(r2_pc')) => r2_pc' \in {"done", "panicked"}]_vars
  /\ [][(r_pc \in {"done", "panicked"}) => r_pc' = r_pc]_vars
  /\ [][(r2_pc \in {"done", "panicked"}) => r2_pc' = r2_pc]_vars
  /\ [][(data_in' # data_in) =>
          \/ /\ InLoop(r_pc)
             /\ r2_pc \in {"idle", "lock", "done", "panicked"}
             /\ UNCHANGED r2vars
          \/ /\ InLoop(r2_pc)
             /\ r_pc \in {"lock", "done", "panicked"}
             /\ UNCHANGED << r_pc, frame_handler >>]_vars
  /\ [][(frame_handler2' # frame_handler2) => (InLoop(r2_pc) /\ data_in' = Tail(data_in))]_vars
  /\ [][(frame_handler' # frame_handler) => (InLoop(r_pc) /\ data_in' = Tail(data_in))]_vars

\* The first task is in its loop and has taken a datagram, more are queued,
\* and the second task waits for the lock.
C24_Witness ==
  /\ InLoop(r_pc)
  /\ r2_pc = "lock"
  /\ data_in_lock
  /\ frame_handler # <<>>
  /\ frame_handler2 = <<>>
  /\ data_in # <<>>

\* C25: datagram reader shutdown.  Once the sender of data_in is gone the
\* read task of UdpProtocol gets to its normal return, and whenever it has
\* returned nothing is left in data_in and the frames of all the well-formed
\* datagrams the peer had queued have been emitted, in their order.
C25_DatagramReaderShutdown ==
  /\ (protocol = "udp" /\ ~data_in_open) ~> (r_pc = "done")
  /\ [](( protocol = "udp" /\ r_pc = "done") =>
          /\ data_in = <<>>
          /\ Len(frame_handler) >= Len(sent)
          /\ SubSeq(frame_handler, Len(frame_handler) - Len(sent) + 1, Len(frame_handler))
               = sent)

\* ------------------------------------------------------------ common/src/comp/skills.rs
\* Level = Option<u16>
None == [some |-> FALSE]
Some(l) == [some |-> TRUE, val |-> l]


\* SkillGroupType
General == "General"
WeaponAxe == "Weapon(Axe)"

SkillGroupTypes == {General, WeaponAxe}

\* Skill
HealthIncrease == "General(HealthIncrease)"
EnergyIncrease == "General(EnergyIncrease)"
UnlockGroupAxe == "UnlockGroup(Weapon(Axe))"
UnlockLeap == "Axe(UnlockLeap)"
LDamage == "Axe(LDamage)"
DsCombo == "Axe(DsCombo)"
RollCost == "Roll(Cost)"

Skills == {HealthIncrease, EnergyIncrease, UnlockGroupAxe, UnlockLeap, LDamage, DsCombo, RollCost}

\* if let Skill::UnlockGroup(group) = skill
UnlockedGroupOf(skill) == IF skill = UnlockGroupAxe THEN Some(WeaponAxe) ELSE None

\* A HashMap as a function on its keys.
EmptyMap == <<>>

ContainsKey(map, k) == k \in DOMAIN map

\* HashMap::insert
Insert(map, k, v) == [x \in DOMAIN map \cup {k} |-> IF x = k THEN v ELSE map[x]]

\* HashMap::remove
Remove(map, k) == [x \in DOMAIN map \ {k} |-> map[x]]

\* HashMap::extend: the entries of more replace those of map.
Extend(map, more) ==
  [x \in DOMAIN map \cup DOMAIN more |-> IF x \in DOMAIN more THEN more[x] ELSE map[x]]

\* The contents of the three asset files the statics are loaded from: the
\* skills of each group, the maximum level of the skills that level, and the
\* skills a skill requires.
Manifests ==
  { [ groups |-> [g \in {General, WeaponAxe} |->
                    IF g = General THEN {HealthIncrease, UnlockGroupAxe}
                    ELSE {UnlockLeap, LDamage}],
      max_level |-> [k \in {HealthIncrease, UnlockLeap} |->
                       IF k = HealthIncrease THEN Some(1) ELSE None],
      prerequisites |-> [k \in {LDamage} |-> [r \in {UnlockLeap} |-> None]] ],
    [ groups |-> [g \in {General, WeaponAxe} |->
                    IF g = General THEN {EnergyIncrease}
                    ELSE {DsCombo, LDamage, UnlockGroupAxe}],
      max_level |-> [k \in {EnergyIncrease, DsCombo, LDamage} |->
                       IF k = DsCombo THEN Some(2) ELSE Some(1)],
      prerequisites |-> [k \in {LDamage, EnergyIncrease} |->
                           IF k = LDamage THEN [r \in {DsCombo} |-> Some(2)]
                           ELSE EmptyMap] ] }

\* The number of points a group has to spend below which, and the distance
\* to u16::MAX within which, points are added to it one at a time.
MaxPoints == 1

\* number_of_skill_points
PointAmounts == {1, U16Max}

\* SkillGroup::new
SkillGroupNew(skill_group_type) ==
  [skill_group_type |-> skill_group_type, exp |-> 0, available_sp |-> 0, earned_sp |-> 0]

\* The SkillSet of the state, as a value.
Self ==
  [skill_groups |-> skill_groups, skills |-> skills, modify_health |-> modify_health,
   modify_energy |-> modify_energy]

\* SkillSet::default()
SkillSetDefault ==
  [skill_groups |-> <<SkillGroupNew(General)>>, skills |-> EmptyMap,
   modify_health |-> FALSE, modify_energy |-> FALSE]

\* The index of the first group of that type: iter().find(..), 0 for None.
FindGroup(groups, skill_group_type) ==
  IF \E i \in 1..Len(groups) : groups[i].skill_group_type = skill_group_type
  THEN CHOOSE i \in 1..Len(groups) :
         /\ groups[i].skill_group_type = skill_group_type
         /\ \A j \in 1..(i - 1) : groups[j].skill_group_type # skill_group_type
  ELSE 0

\* ------------------------------------------------------------ impl Skill
\* Skill::get_skill_group_type: the key of the first group, in the iteration
\* order of the static map, whose set holds the skill.  The map never
\* changes, so the order is the same at every call.
get_skill_group_type(skill) ==
  LET keys == {key \in DOMAIN SKILL_GROUP_DEFS : skill \in SKILL_GROUP_DEFS[key]}
  IN  IF keys = {} THEN None ELSE Some(CHOOSE key \in keys : TRUE)

\* Skill::get_max_level: SKILL_MAX_LEVEL.get(&self).copied().flatten()
get_max_level(skill) ==
  IF ContainsKey(SKILL_MAX_LEVEL, skill) THEN SKILL_MAX_LEVEL[skill] ELSE None

\* A cost of one point for every level.
skill_cost_flat(level) == 1

\* Skill::skill_cost: level.unwrap_or(1)
skill_cost(level) == IF level.some THEN level.val ELSE 1

\* Skill::prerequisite_skills
prerequisite_skills(skill, level) ==
  LET lower == IF level.some /\ level.val > 1
               THEN [k \in {skill} |-> Some(level.val - 1)]
               ELSE EmptyMap
  IN  IF ContainsKey(SKILL_PREREQUISITES, skill)
      THEN Extend(lower, SKILL_PREREQUISITES[skill])
      ELSE lower

\* l_b >= l of two Option<u16>: None is below every Some.
LevelGe(l_b, l) == IF l.some THEN l_b.some /\ l_b.val >= l.val ELSE TRUE

\* ------------------------------------------------------------ impl SkillSet
\* let next_level = if self.skills.contains_key(&skill) { .. } else { .. }
NextLevel(self, skill) ==
  IF ContainsKey(self.skills, skill)
  THEN IF self.skills[skill].some THEN Some(self.skills[skill].val + 1) ELSE None
  ELSE IF get_max_level(skill).some THEN Some(1) ELSE None

\* SkillSet::prerequisites_met
prerequisites_met(self, skill) ==
  LET required == prerequisite_skills(skill, NextLevel(self, skill))
  IN  \A r \in DOMAIN required :
        ContainsKey(self.skills, r) /\ LevelGe(self.skills[r], required[r])

\* An unlock_skill_group that would not look for the group first.
unlock_skill_group_unchecked(self, skill_group_type) ==
  [self EXCEPT !.skill_groups = Append(@, SkillGroupNew(skill_group_type))]

\* SkillSet::unlock_skill_group
unlock_skill_group(self, skill_group_type) ==
  IF ~\E i \in 1..Len(self.skill_groups) :
        self.skill_groups[i].skill_group_type = skill_group_type
  THEN [self EXCEPT !.skill_groups = Append(@, SkillGroupNew(skill_group_type))]
  ELSE self

\* A check of the points that would let every request through.
HasSpAlways(available_sp, cost) == TRUE

\* skill_group.available_sp >= skill.skill_cost(next_level)
HasSp(available_sp, cost) == available_sp >= cost

\* matches!(self.skills.get(&skill), Some(level) if *level == skill.get_max_level())
AtMaxLevel(self, skill) ==
  ContainsKey(self.skills, skill) /\ self.skills[skill] = get_max_level(skill)

\* SkillSet::unlock_skill
unlock_skill(self, skill) ==
  LET skill_group_type == get_skill_group_type(skill)
      next_level == NextLevel(self, skill)
      i == IF skill_group_type.some THEN FindGroup(self.skill_groups, skill_group_type.val)
           ELSE 0
  IN  IF /\ skill_group_type.some
         /\ ~AtMaxLevel(self, skill)
         /\ i # 0
         /\ prerequisites_met(self, skill)
         /\ HasSp(self.skill_groups[i].available_sp, skill_cost(next_level))
      THEN LET paid == [self EXCEPT !.skill_groups[i].available_sp =
                                       @ - skill_cost(next_level)]
               grouped == IF UnlockedGroupOf(skill).some
                          THEN unlock_skill_group(paid, UnlockedGroupOf(skill).val)
                          ELSE paid
           IN  [grouped EXCEPT
                  !.modify_health = IF skill = HealthIncrease THEN TRUE ELSE @,
                  !.modify_energy = IF skill = EnergyIncrease THEN TRUE ELSE @,
                  !.skills = Insert(@, skill, next_level)]
      ELSE self

\* A refund that would keep a skill of level 1 at level 0.
KeepsLevelFromOne(level) == level.some /\ level.val >= 1

\* level.map_or(false, |l| l > 1)
KeepsLevel(level) == level.some /\ level.val > 1

\* SkillSet::refund_skill.  available_sp += cost overflows a u16 when the sum
\* is above u16::MAX: overflow says so, and self is the skill set as the
\* wrapping addition of a build without overflow checks leaves it.
refund_skill(self, skill) ==
  LET skill_group_type == get_skill_group_type(skill)
      i == IF skill_group_type.some THEN FindGroup(self.skill_groups, skill_group_type.val)
           ELSE 0
  IN  IF ContainsKey(self.skills, skill) /\ skill_group_type.some /\ i # 0
      THEN LET level == self.skills[skill]
               sum == self.skill_groups[i].available_sp + skill_cost(level)
           IN  [ overflow |-> sum > U16Max,
                 self |-> [self EXCEPT
                             !.skill_groups[i].available_sp = sum % (U16Max + 1),
                             !.skills = IF KeepsLevel(level)
                                        THEN Insert(@, skill, Some(level.val - 1))
                                        ELSE Remove(@, skill)] ]
      ELSE [overflow |-> FALSE, self |-> self]

\* u16::wrapping_add in the place of saturating_add.
wrapping_add(a, b) == (a + b) % (U16Max + 1)

\* u16::saturating_add
saturating_add(a, b) == IF a + b > U16Max THEN U16Max ELSE a + b

\* SkillSet::add_skill_points
add_skill_points(self, skill_group_type, number_of_skill_points) ==
  LET i == FindGroup(self.skill_groups, skill_group_type)
  IN  IF i # 0
      THEN [self EXCEPT
              !.skill_groups[i].available_sp = saturating_add(@, number_of_skill_points),
              !.skill_groups[i].earned_sp = saturating_add(@, number_of_skill_points)]
      ELSE self

\* ------------------------------------------------------------ a player's skill set
\* What a refund_skill has to bring back after an unlock_skill: the points
\* of the skill's group and the level of the skill before the unlock.
Undo(self, skill) ==
  LET skill_group_type == get_skill_group_type(skill)
      i == IF skill_group_type.some THEN FindGroup(self.skill_groups, skill_group_type.val)
           ELSE 0
  IN  [ available_sp |-> IF i # 0 THEN self.skill_groups[i].available_sp ELSE 0,
        unlocked |-> ContainsKey(self.skills, skill),
        level |-> IF ContainsKey(self.skills, skill) THEN self.skills[skill] ELSE None ]

NoUndo == [unlocked |-> FALSE]

\* The statics are loaded once, and a new player gets SkillSet::default().
InitSkills ==
  /\ protocol = "none"
  /\ ReadIdle
  /\ WriteIdle
  /\ \E m \in Manifests :
       /\ SKILL_GROUP_DEFS = m.groups
       /\ SKILL_MAX_LEVEL = m.max_level
       /\ SKILL_PREREQUISITES = m.prerequisites
  /\ skill_groups = SkillSetDefault.skill_groups
  /\ skills = SkillSetDefault.skills
  /\ modify_health = SkillSetDefault.modify_health
  /\ modify_energy = SkillSetDefault.modify_energy
  /\ sk_pc = "ready"
  /\ call = [op |-> "default"]
  /\ PlayIdle

\* *self = r
SetSelf(r) ==
  /\ skill_groups' = r.skill_groups
  /\ skills' = r.skills
  /\ modify_health' = r.modify_health
  /\ modify_energy' = r.modify_energy

SkillsFrame ==
  /\ UNCHANGED << SKILL_GROUP_DEFS, SKILL_MAX_LEVEL, SKILL_PREREQUISITES >>
  /\ UNCHANGED << protocol, rvars, wvars >>
  /\ UNCHANGED pvars

\* skillset.unlock_skill_group(skill_group_type)
UnlockSkillGroup ==
  /\ sk_pc = "ready"
  /\ \E skill_group_type \in SkillGroupTypes :
       /\ SetSelf(unlock_skill_group(Self, skill_group_type))
       /\ call' = [op |-> "unlock_skill_group", skill_group_type |-> skill_group_type]
  /\ UNCHANGED sk_pc
  /\ SkillsFrame

\* skillset.add_skill_points(skill_group_type, number_of_skill_points); one
\* point at a time is tried while the group has few points to spend or has
\* u16::MAX of them.
AddSkillPoints ==
  /\ sk_pc = "ready"
  /\ \E skill_group_type \in SkillGroupTypes, number_of_skill_points \in PointAmounts :
       /\ LET i == FindGroup(skill_groups, skill_group_type) IN
            IF i = 0 \/ number_of_skill_points = U16Max THEN TRUE
            ELSE \/ skill_groups[i].available_sp < MaxPoints
                 \/ skill_groups[i].available_sp = U16Max
       /\ SetSelf(add_skill_points(Self, skill_group_type, number_of_skill_points))
       /\ call' = [op |-> "add_skill_points", skill_group_type |-> skill_group_type,
                   number_of_skill_points |-> number_of_skill_points]
  /\ UNCHANGED sk_pc
  /\ SkillsFrame

\* skillset.unlock_skill(skill).  The history keeps whether the call changed
\* the skill set, and what a refund of the skill would have to bring back.
UnlockSkill ==
  /\ sk_pc = "ready"
  /\ \E skill \in Skills :
       /\ SetSelf(unlock_skill(Self, skill))
       /\ call' = [op |-> "unlock_skill", skill |-> skill,
                   went |-> unlock_skill(Self, skill) # Self,
                   undo |-> Undo(Self, skill)]
  /\ UNCHANGED sk_pc
  /\ SkillsFrame

\* skillset.refund_skill(skill).  An overflow of available_sp += .. panics in
\* a build with overflow checks, before anything is stored, and wraps in a
\* build without.  When the call before was an unlock_skill of the same skill
\* that went through, the history keeps what that call recorded.
RefundSkill ==
  /\ sk_pc = "ready"
  /\ \E skill \in Skills :
       LET r == refund_skill(Self, skill) IN
       /\ \/ /\ SetSelf(r.self)
             /\ UNCHANGED sk_pc
          \/ /\ r.overflow
             /\ sk_pc' = "panicked"
             /\ UNCHANGED << skill_groups, skills, modify_health, modify_energy >>
       /\ call' = [op |-> "refund_skill", skill |-> skill,
                   after_unlock |-> (call.op = "unlock_skill" /\ call.skill = skill
                                       /\ call.went),
                   undo |-> IF call.op = "unlock_skill" /\ call.skill = skill /\ call.went
                            THEN call.undo ELSE NoUndo]
  /\ SkillsFrame

NextSkills == UnlockSkillGroup \/ AddSkillPoints \/ UnlockSkill \/ RefundSkill

SpecSkills == InitSkills /\ [][NextSkills]_vars

\* ------------------------------------------------------------ claims on the skill set
\* The types of the groups are pairwise different.
NoDuplicateGroup(groups) ==
  \A i \in 1..Len(groups), j \in 1..Len(groups) :
    i # j => groups[i].skill_group_type # groups[j].skill_group_type

HasGroup(groups, skill_group_type) ==
  \E i \in 1..Len(groups) : groups[i].skill_group_type = skill_group_type

\* C26: unlock_skill_group adds a group once.  A call of unlock_skill_group
\* leaves the skill set as it was when that holds a group of the type, and
\* else adds one group at the end, of that type and with exp, available_sp and
\* earned_sp 0, and changes nothing else; and whatever was called, no two
\* groups of the skill set have the same type.
C26_UnlockSkillGroupOnce ==
  /\ [](sk_pc # "none" => NoDuplicateGroup(skill_groups))
  /\ [][(call'.op = "unlock_skill_group") =>
          IF HasGroup(skill_groups, call'.skill_group_type)
          THEN Self' = Self
          ELSE /\ skill_groups' =
                    skill_groups \o
                      << [skill_group_type |-> call'.skill_group_type, exp |-> 0,
                          available_sp |-> 0, earned_sp |-> 0] >>
               /\ UNCHANGED << skills, modify_health, modify_energy >>]_vars

\* Both branches were taken: the group of the last call was added by an
\* earlier call, after which points went to it, and the last call changed
\* nothing.
C26_Witness ==
  /\ call.op = "unlock_skill_group"
  /\ call.skill_group_type = WeaponAxe
  /\ Len(skill_groups) = 2
  /\ skill_groups[2].skill_group_type = WeaponAxe
  /\ skill_groups[2].earned_sp = 1

\* The level a skill is recorded at by its next unlock: 1 for a skill that
\* levels and is not unlocked, one more than its level when it is unlocked,
\* and no level for a skill that does not level.
LevelAfterUnlock(skill) ==
  IF skill \in DOMAIN skills
  THEN IF skills[skill].some THEN Some(skills[skill].val + 1) ELSE None
  ELSE IF skill \in DOMAIN SKILL_MAX_LEVEL /\ SKILL_MAX_LEVEL[skill].some THEN Some(1)
       ELSE None

\* What that unlock costs: the number of the level, and 1 point for a skill
\* that does not level.
CostOfUnlock(skill) ==
  IF LevelAfterUnlock(skill).some THEN LevelAfterUnlock(skill).val ELSE 1

\* The skill is recorded at the highest level it has.
AtTop(skill) ==
  /\ skill \in DOMAIN skills
  /\ skills[skill] = (IF skill \in DOMAIN SKILL_MAX_LEVEL THEN SKILL_MAX_LEVEL[skill]
                      ELSE None)

\* The skill is of a group, and the skill set holds that group.
GroupUnlocked(skill) ==
  /\ get_skill_group_type(skill).some
  /\ HasGroup(skill_groups, get_skill_group_type(skill).val)

\* The place in skill_groups of the group of the skill.
GroupOf(skill) == FindGroup(skill_groups, get_skill_group_type(skill).val)

\* unlock_skill accepts the skill in this state.
Unlockable(skill) ==
  /\ GroupUnlocked(skill)
  /\ prerequisites_met(Self, skill)
  /\ ~AtTop(skill)
  /\ skill_groups[GroupOf(skill)].available_sp >= CostOfUnlock(skill)

\* C27: a call of unlock_skill for a skill whose group is unlocked, whose
\* prerequisites are met, that is not at its maximum level and whose group has
\* at least the cost of the next level to spend takes exactly that cost from
\* the available_sp of that group, leaves the rest of that group and every
\* other group of the skill set as they were, and records the skill at the
\* next level.  The only group that can come on top is the one a
\* Skill::UnlockGroup unlocks, new and at the end.
C27_UnlockSkillPays ==
  [][(call'.op = "unlock_skill" /\ Unlockable(call'.skill)) =>
       LET skill == call'.skill
           i == GroupOf(skill)
       IN  /\ skill_groups'[i] =
                [skill_groups[i] EXCEPT !.available_sp = @ - CostOfUnlock(skill)]
           /\ \A j \in 1..Len(skill_groups) : j # i => skill_groups'[j] = skill_groups[j]
           /\ skill \in DOMAIN skills'
           /\ skills'[skill] = LevelAfterUnlock(skill)
           /\ \A k \in DOMAIN skills \ {skill} : k \in DOMAIN skills' /\ skills'[k] = skills[k]
           /\ DOMAIN skills' = DOMAIN skills \cup {skill}
           /\ IF skill = UnlockGroupAxe /\ ~HasGroup(skill_groups, WeaponAxe)
              THEN skill_groups' =
                     SubSeq(skill_groups', 1, Len(skill_groups)) \o
                       << [skill_group_type |-> WeaponAxe, exp |-> 0,
                           available_sp |-> 0, earned_sp |-> 0] >>
              ELSE Len(skill_groups') = Len(skill_groups)]_vars

\* A skill went from level 1 to level 2 for 2 points of its group, which is
\* not the first group of the skill set.
C27_Witness ==
  /\ call.op = "unlock_skill"
  /\ call.skill = DsCombo
  /\ call.went
  /\ call.undo.level = Some(1)
  /\ skills[DsCombo] = Some(2)
  /\ GroupOf(DsCombo) = 2
  /\ skill_groups[2].available_sp = call.undo.available_sp - 2

\* The group of the skill is held and has less to spend than the next level
\* of the skill costs.
InsufficientSp(skill) ==
  IF GroupUnlocked(skill)
  THEN skill_groups[GroupOf(skill)].available_sp < CostOfUnlock(skill)
  ELSE FALSE

\* The reasons unlock_skill has to reject a request.
Rejected(skill) ==
  \/ InsufficientSp(skill)
  \/ get_skill_group_type(skill).some /\ ~GroupUnlocked(skill)
  \/ ~prerequisites_met(Self, skill)
  \/ AtTop(skill)
  \/ ~get_skill_group_type(skill).some

\* C28: a call of unlock_skill that meets one of the reasons to reject (too
\* little available_sp, group not unlocked, prerequisites not met, skill at
\* its maximum level, skill of no group) leaves skill_groups, skills,
\* modify_health and modify_energy as they were.
C28_RejectedUnlockChangesNothing ==
  [][(call'.op = "unlock_skill" /\ Rejected(call'.skill)) =>
       /\ skill_groups' = skill_groups
       /\ skills' = skills
       /\ modify_health' = modify_health
       /\ modify_energy' = modify_energy]_vars

\* The last call asked for level 2 of a skill whose group is held and has 1
\* point to spend, and changed nothing.
C28_Witness ==
  /\ call.op = "unlock_skill"
  /\ call.skill = DsCombo
  /\ ~call.went
  /\ DsCombo \in DOMAIN skills
  /\ skills[DsCombo] = Some(1)
  /\ GroupUnlocked(DsCombo)
  /\ skill_groups[GroupOf(DsCombo)].available_sp = 1
  /\ InsufficientSp(DsCombo)

UpToU16Max(a, b) == IF a + b < U16Max THEN a + b ELSE U16Max

\* C30: a call of add_skill_points(skill_group_type, number_of_skill_points)
\* on a skill set that holds the group adds the number to available_sp and to
\* earned_sp of that group, each stopping at u16::MAX, and changes nothing
\* else; on a skill set that does not hold the group it changes nothing.
C30_AddSkillPoints ==
  [][(call'.op = "add_skill_points") =>
       LET skill_group_type == call'.skill_group_type
           n == call'.number_of_skill_points
           i == FindGroup(skill_groups, skill_group_type)
       IN  /\ UNCHANGED << skills, modify_health, modify_energy >>
           /\ IF HasGroup(skill_groups, skill_group_type)
              THEN /\ Len(skill_groups') = Len(skill_groups)
                   /\ skill_groups'[i] =
                        [skill_groups[i] EXCEPT
                           !.available_sp = UpToU16Max(@, n),
                           !.earned_sp = UpToU16Max(@, n)]
                   /\ \A j \in 1..Len(skill_groups) :
                        j # i => skill_groups'[j] = skill_groups[j]
              ELSE skill_groups' = skill_groups]_vars

\* One point was added to a group that had u16::MAX points earned and fewer
\* to spend: earned_sp stayed at u16::MAX and available_sp went up by one.
C30_Witness ==
  /\ call.op = "add_skill_points"
  /\ call.number_of_skill_points = 1
  /\ HasGroup(skill_groups, call.skill_group_type)
  /\ skill_groups[FindGroup(skill_groups, call.skill_group_type)].earned_sp = U16Max
  /\ skill_groups[FindGroup(skill_groups, call.skill_group_type)].available_sp = 1

\* ------------------------------------------------------------ claims on sizes and framing
\* C31: the default arm of TcpProtocol::read takes exactly 256 bytes from the
\* stream before the next tag is read, and the Raw frame it emits carries
\* exactly the bytes taken.
C31_DiagBlobConsumes256 ==
  [][(protocol = "tcp" /\ r_pc = "unknown" /\ r_pc' = "tag") =>
       /\ Len(stream) - Len(stream') = DiagLen
       /\ Last(frame_handler').data = SubSeq(stream, 1, DiagLen)]_vars

\* The write task of TcpProtocol is writing, or has written, the Data or Raw
\* frame it took.
WritesPayload ==
  /\ protocol = "tcp"
  /\ recording
  /\ w_pc \in {"tcp_write", "select"}
  /\ frame # NoFrame
  /\ frame.kind \in {"Data", "Raw"}

\* C32: the length prefix of a Data or Raw frame on the wire is the number of
\* payload bytes written after it.  What the write_all calls of the frame
\* made so far have put on the stream are the first slices of the frame, and
\* of these slices the one before the last, the prefix, holds the length of the
\* last, the payload.
C32_LengthPrefixIsPayloadLength ==
  WritesPayload =>
     LET n == Len(TcpFields(frame))
         written == IF w_pc = "select" THEN n ELSE field - 1
         prefix == TcpFields(frame)[n - 1]
     IN  /\ \A i \in 1..written :
              wire[Len(wire) - written + i].bytes = TcpFields(frame)[i]
         /\ U16FromLeBytes(prefix[1], prefix[2]) = Len(TcpFields(frame)[n])

\* The entries of the history that one frame, the one numbered no, has made.
EntriesOf(no) == {i \in 1..Len(wire) : wire[i].no = no}

\* C33: a frame is written to the stream as a whole.  From the first write_all
\* of a frame to its last the write task takes no frame from either source;
\* the entries one frame has made on the stream are next to each other and
\* come from one source; and when the last write_all of a frame returns, the
\* stream ends with the tag and every field of that frame, in order.
C33_FramesAtomicOnStream ==
  /\ [][(protocol = "tcp" /\ w_pc = "tcp_write") =>
          /\ Taken' = Taken
          /\ frame' = frame
          /\ src' = src]_vars
  /\ [](protocol = "tcp" =>
          \A i \in 1..Len(wire), k \in 1..Len(wire) :
            (i < k /\ wire[i].no = wire[k].no) =>
               \A j \in i..k : wire[j].no = wire[i].no /\ wire[j].src = wire[i].src)
  /\ []((protocol = "tcp" /\ recording /\ w_pc = "select" /\ frame # NoFrame) =>
          LET n == Len(TcpFields(frame)) IN
          /\ Len(wire) >= n
          /\ [i \in 1..n |-> wire[Len(wire) - n + i].bytes] = TcpFields(frame)
          /\ EntriesOf(Taken) = (Len(wire) - n + 1)..Len(wire))

\* The write task is between two write_all calls of a frame of one source
\* while a frame of the other source is queued, after it has written a frame
\* of that other source.
C33_Witness ==
  /\ protocol = "tcp"
  /\ w_pc = "tcp_write"
  /\ field > 1
  /\ src = "internal"
  /\ external_frame_receiver # <<>>
  /\ \E i \in 1..Len(wire) : wire[i].src = "external"
  /\ wire[Len(wire)].no = Taken

\* ------------------------------------------------------------ claims on malformed datagrams
\* C34: a datagram of no bytes does not stop UdpProtocol::read.  When the read
\* task takes a datagram of length 0 from data_in it stays in its loop, with
\* the lock of data_in, ready to take the datagram queued after it.
C34_EmptyDatagramSkipped ==
  [][(TakesDatagram /\ Head(data_in) = <<>>) =>
       /\ r_pc' = "recv"
       /\ data_in_lock']_vars

\* The datagram has the tag of Data or of Raw and the whole header of that
\* frame, and its length prefix is not the number of bytes after the header.
WrongLength(d) ==
  /\ d # <<>>
  /\ \/ /\ At(d, 0) = FRAME_DATA
        /\ Len(d) >= 19
        /\ U16FromLeBytes(At(d, 17), At(d, 18)) # Len(d) - 19
     \/ /\ At(d, 0) = FRAME_RAW
        /\ Len(d) >= 3
        /\ U16FromLeBytes(At(d, 1), At(d, 2)) # Len(d) - 3

\* The number of bytes of the datagram after the header of its frame.
BytesPresent(d) == IF At(d, 0) = FRAME_DATA THEN Len(d) - 19 ELSE Len(d) - 3

\* C35: a Data or Raw datagram with a wrong length prefix.  When the read
\* task takes one, it emits no Data or Raw frame whose payload is not the
\* bytes that are there, and it stays in its loop, with the lock of data_in,
\* ready to take the next datagram.
C35_WrongLengthTolerated ==
  [][(TakesDatagram /\ WrongLength(Head(data_in))) =>
       /\ \A i \in (Len(frame_handler) + 1)..Len(frame_handler') :
            frame_handler'[i].kind \in {"Data", "Raw"} =>
               Len(frame_handler'[i].data) = BytesPresent(Head(data_in))
       /\ r_pc' = "recv"
       /\ data_in_lock']_vars

\* ------------------------------------------------------------ claims on the points of a skill set
\* No group has more points to spend than it has earned.
SpentWithinEarned ==
  \A i \in 1..Len(skill_groups) : skill_groups[i].available_sp <= skill_groups[i].earned_sp

\* C36: whatever was called on a skill set since SkillSet::default(), every
\* group has available_sp <= earned_sp, and no call has overflowed: the
\* addition to available_sp in refund_skill stayed within a u16.
C36_AvailableWithinEarned ==
  sk_pc # "none" => (SpentWithinEarned /\ sk_pc # "panicked")

\* ------------------------------------------------------------ voxygen/src/main.rs
\* The deepest stack of play states tried, and the most play calls made.
MaxDepth == 3
MaxPlays == 4

\* PlayState::name() of the states: the one main starts with, and those a
\* state may hand back in Push or Switch.
MainMenuState == "MainMenuState"
StateNames == {MainMenuState, "settings", "game session"}

\* Direction
Forwards == "Forwards"
Backwards == "Backwards"

\* A loop that would play the state at the bottom of the stack.
FirstOf(stack) == stack[1]

\* states.last_mut()
LastOf(stack) == stack[Len(stack)]

\* A pop that would take the state at the bottom of the stack.
PopFront(stack) == Tail(stack)

\* states.pop()
Pop(stack) == SubSeq(stack, 1, Len(stack) - 1)

\* A Switch that would put the new state on top of the old one.
SwapPushes(stack, new_state) == Append(stack, new_state)

\* mem::swap(old_state, &mut new_state) on states.last_mut()
Swap(stack, new_state) == [stack EXCEPT ![Len(stack)] = new_state]

\* A Pop arm that would leave the direction as it is.
AfterPopKeeps(d) == d

\* direction = Direction::Backwards in the Pop arm
AfterPop(d) == Backwards

\* let mut states = vec![Box::new(MainMenuState::new(..))];
\* let mut direction = Direction::Forwards;
InitPlay ==
  /\ protocol = "none"
  /\ ReadIdle
  /\ WriteIdle
  /\ SkillsIdle
  /\ states = <<MainMenuState>>
  /\ direction = Forwards
  /\ ps_pc = "play"
  /\ plays = 0
  /\ played = [state |-> "none"]
  /\ state_result = "none"
  /\ changed = 0
  /\ popped = <<>>

PlayFrame ==
  /\ UNCHANGED << protocol, rvars, wvars, svars >>

\* states.last_mut().map(|last| last.play(direction, &mut global_state)) is
\* Some(state_result): the call of play on the top state, as the history
\* keeps it.
CallPlay(result) ==
  /\ ps_pc = "play"
  /\ states # <<>>
  /\ plays < MaxPlays
  /\ plays' = plays + 1
  /\ played' = [state |-> LastOf(states), direction |-> direction, depth |-> Len(states)]
  /\ state_result' = result

\* play returned PlayStateResult::Shutdown: the arm up to its inner loop.
PlayShutdown ==
  /\ CallPlay("Shutdown")
  /\ direction' = Backwards
  /\ ps_pc' = "shutdown"
  /\ popped' = <<>>
  /\ UNCHANGED << states, changed >>
  /\ PlayFrame

\* One turn of while states.last().is_some() { states.pop().map(..) }, and
\* the end of that loop.
PopAll ==
  /\ ps_pc = "shutdown"
  /\ IF states # <<>>
     THEN /\ popped' = Append(popped, LastOf(states))
          /\ states' = Pop(states)
          /\ changed' = changed + 1
          /\ UNCHANGED ps_pc
     ELSE /\ ps_pc' = "play"
          /\ UNCHANGED << states, changed, popped >>
  /\ UNCHANGED << direction, plays, played, state_result >>
  /\ PlayFrame

\* play returned PlayStateResult::Pop.
PlayPop ==
  /\ CallPlay("Pop")
  /\ direction' = AfterPop(direction)
  /\ states' = Pop(states)
  /\ changed' = changed + 1
  /\ UNCHANGED << ps_pc, popped >>
  /\ PlayFrame

\* play returned PlayStateResult::Push(new_state).
PlayPush ==
  /\ CallPlay("Push")
  /\ Len(states) < MaxDepth
  /\ \E new_state \in StateNames :
       states' = Append(states, new_state)
  /\ direction' = Forwards
  /\ changed' = changed + 1
  /\ UNCHANGED << ps_pc, popped >>
  /\ PlayFrame

\* play returned PlayStateResult::Switch(new_state).
PlaySwitch ==
  /\ CallPlay("Switch")
  /\ \E new_state \in StateNames :
       states' = Swap(states, new_state)
  /\ direction' = Forwards
  /\ changed' = changed + 1
  /\ UNCHANGED << ps_pc, popped >>
  /\ PlayFrame

\* states.last_mut() is None: the while let ends, and main returns.
ExitLoop ==
  /\ ps_pc = "play"
  /\ states = <<>>
  /\ ps_pc' = "exit"
  /\ UNCHANGED << states, direction, plays, played, state_result, changed, popped >>
  /\ PlayFrame

\* What main does by itself, without a play call that has to return.
MainStep == PopAll \/ ExitLoop

NextPlay == PlayShutdown \/ PlayPop \/ PlayPush \/ PlaySwitch \/ MainStep

SpecPlay == InitPlay /\ [][NextPlay]_vars

\* The thread of main runs on when it can.
SpecPlayFair == InitPlay /\ [][NextPlay]_vars /\ WF_vars(MainStep)

\* ------------------------------------------------------------ claims on the play-state loop
\* C37: the play-state loop.  Every play call is made on the state on top of
\* the stack, and only while the stack holds a state; the loop ends only
\* with the stack empty, and ends when it is.  After play returned Shutdown
\* each turn of the inner loop pops the top state and calls
\* on_play_state_changed once, until every state that was on the stack is
\* popped, top first; then the loop ends, and no play call is made after the
\* Shutdown.
C37_PlayStateLoop ==
  /\ [][(plays' # plays) =>
          /\ states # <<>>
          /\ played'.state = states[Len(states)]]_vars
  /\ [][(ps_pc' = "exit" /\ ps_pc # "exit") => states = <<>>]_vars
  /\ [](ps_pc = "exit" => states = <<>>)
  /\ (ps_pc = "play" /\ states = <<>>) ~> (ps_pc = "exit")
  /\ [][(ps_pc = "shutdown" /\ states # <<>>) =>
          /\ states' = SubSeq(states, 1, Len(states) - 1)
          /\ popped' = popped \o <<states[Len(states)]>>
          /\ changed' = changed + 1]_vars
  /\ []((state_result = "Shutdown" /\ ps_pc # "shutdown") =>
          /\ states = <<>>
          /\ Len(popped) = played.depth
          /\ popped[1] = played.state)
  /\ [][(state_result = "Shutdown") => plays' = plays]_vars
  /\ (state_result = "Shutdown") ~> (ps_pc = "exit")

\* A stack of three states was shut down: the three were popped top first,
\* one on_play_state_changed each after the two of the pushes, and the loop
\* has ended.
C37_Witness ==
  /\ ps_pc = "exit"
  /\ state_result = "Shutdown"
  /\ played.depth = 3
  /\ popped = <<"game session", "settings", MainMenuState>>
  /\ changed = 5
  /\ plays = 3
  /\ states = <<>>

\* The last play call returned the result and main has run its arm.
Returned(result) == plays' # plays /\ state_result' = result

\* C38: the transitions of the play states.  Push puts one state on top of
\* the stack and leaves the states below as they were; Switch replaces the
\* top state and nothing else; after both the direction is Forwards.  Pop
\* takes the top state off and leaves the states below as they were, and the
\* direction is Backwards.  Every play call gets the direction the arm before
\* it has set, and the first play call gets Forwards.
C38_PlayStateTransitions ==
  /\ [][Returned("Push") =>
          /\ Len(states') = Len(states) + 1
          /\ SubSeq(states', 1, Len(states)) = states
          /\ direction' = "Forwards"]_vars
  /\ [][Returned("Switch") =>
          /\ Len(states') = Len(states)
          /\ SubSeq(states', 1, Len(states) - 1) = SubSeq(states, 1, Len(states) - 1)
          /\ direction' = "Forwards"]_vars
  /\ [][Returned("Pop") =>
          /\ Len(states') = Len(states) - 1
          /\ states' = SubSeq(states, 1, Len(states) - 1)
          /\ direction' = "Backwards"]_vars
  /\ [][(plays' # plays) =>
          /\ played'.direction = direction
          /\ (plays = 0 => played'.direction = "Forwards")
          /\ (state_result \in {"Push", "Switch"} => played'.direction = "Forwards")
          /\ (state_result = "Pop" => played'.direction = "Backwards")]_vars

\* After a Push and a Pop the state that was uncovered has been played, with
\* Backwards, and has returned Switch: the stack holds the new state alone.
C38_Witness ==
  /\ plays = 3
  /\ played = [state |-> MainMenuState, direction |-> "Backwards", depth |-> 1]
  /\ state_result = "Switch"
  /\ states = <<"game session">>
  /\ direction = "Forwards"
  /\ changed = 3

====
